---- MODULE Spec2Model ----
(***************************************************************************)
(* The in-memory resource store of runtimed (state/store.go): a map        *)
(* kind -> name -> resource guarded by one RWMutex, with a watch protocol  *)
(* that delivers one event per committed mutation to buffered channels     *)
(* while the writer still holds the mutex.                                 *)
(***************************************************************************)
EXTENDS Integers, Sequences, FiniteSets, TLC

\* ------------------------------------------------------------------ bounds
\* Number of committed mutations (Create / effective Update / Delete) explored.
MaxCommits == 3
\* Capacity of a subscriber channel in the model (make(chan Event, 100) in the code).
ChanCap == 2

\* ------------------------------------------------------------------ values
Nil == [nil |-> TRUE]

Kinds == {"NetworkInterface", "DHCPClient"}
Names == {"eth0"}
\* The contexts callers pass to Watch; each is used for one Watch call, and the
\* channel that call makes is named after it.
Contexts == {"ctx1", "ctx2"}

NoFinalizers == << >>
SomeFinalizers == << "cleanup-routes" >>
NoLabels == [x \in {} |-> ""]
SomeLabels == [x \in {"role"} |-> "uplink"]

NetworkInterface(mac) == [tag |-> "network_interface", mac_address |-> mac]
DHCPClient(enabled) == [tag |-> "dhcp_client", enabled |-> enabled]

ResourceMetadata(name, kind, owner, generation, finalizers, labels, annotations) ==
    [name |-> name, kind |-> kind, owner |-> owner, generation |-> generation,
     finalizers |-> finalizers, labels |-> labels, annotations |-> annotations]

Resource(metadata, spec) == [metadata |-> metadata, spec |-> spec]

\* The records callers pass to Create and Update: a base record and records that
\* differ from it in one field each (spec, finalizers, owner, generation, labels,
\* annotations), plus a second record of owner "A".
Base == Resource(ResourceMetadata("eth0", "NetworkInterface", "", 0, NoFinalizers, NoLabels, NoLabels),
                 NetworkInterface("00:11:22:33:44:55"))

NetworkInterfaceInputs ==
    { Base,
      [Base EXCEPT !.spec = NetworkInterface("aa:bb:cc:dd:ee:ff")],
      [Base EXCEPT !.metadata.finalizers = SomeFinalizers],
      [Base EXCEPT !.metadata.owner = "A"],
      [Base EXCEPT !.metadata.owner = "A", !.spec = NetworkInterface("aa:bb:cc:dd:ee:ff")],
      [Base EXCEPT !.metadata.owner = "B"],
      [Base EXCEPT !.metadata.generation = 1],
      [Base EXCEPT !.metadata.labels = SomeLabels],
      [Base EXCEPT !.metadata.annotations = SomeLabels] }

DHCPClientInputs ==
    { Resource(ResourceMetadata("eth0", "DHCPClient", "", 0, NoFinalizers, NoLabels, NoLabels),
               DHCPClient(TRUE)) }

NoMetadataInput == Resource(Nil, NetworkInterface("00:11:22:33:44:55"))

Inputs == NetworkInterfaceInputs \cup DHCPClientInputs \cup {NoMetadataInput}

\* KindFor: the kind registered for the type of a spec.
KindFor(spec) == IF spec.tag = "network_interface" THEN "NetworkInterface" ELSE "DHCPClient"

\* Records that name no resource of a registered kind: without a name, without a
\* kind, of a kind that is not registered (TestDisallowedTypes), and with the
\* spec of another kind.
InvalidInputs ==
    { [Base EXCEPT !.metadata.name = ""],
      [Base EXCEPT !.metadata.kind = ""],
      [Base EXCEPT !.metadata.kind = "DisallowedType", !.metadata.name = "test"],
      [Base EXCEPT !.spec = DHCPClient(TRUE)] }

\* ------------------------------------------------------------------ state
VARIABLES
    data,      \* memoryStore.data: kind -> name -> resource (both maps grow on demand)
    watchers,  \* memoryStore.watchers: kind -> sequence of channels
    mu,        \* memoryStore.mu: "unlocked", or "locked" by a writer inside notify
    frame,     \* the notify loop of the writer holding mu: its event and position
    chans,     \* the channels made by Watch: buffer and closed flag
    ctxDone,   \* per context: whether it has been cancelled
    gor,       \* per Watch call: its clean-up goroutine (kind, pc)
    seen,      \* per channel: commit number of the last event its consumer took out
    start,     \* per channel: number of mutations committed when Watch registered it
    commits,   \* number of mutations committed so far
    call,      \* the most recent Store call: arguments, outcome, prior stored record
    via,       \* the most recent call on a wrapper (OwnershipStore, TypeRestrictedStore)
    generators, \* Runtime.generators: name -> generator
    wg,        \* Runtime.wg: the WaitGroup counter
    tasks,     \* the goroutines started by Start: generator name -> position in Run
    startCall, \* the call of Runtime.Start: its position, the generators left to start
    stopCall,  \* the call of Runtime.Stop: its position, its done channel, its result
    rootCtx,   \* the context passed to Start: whether it has been cancelled
    shutdownCtx, \* the context passed to Stop: whether its deadline has fired
    typed,     \* the streams made by TypedStore.Watch: channel and forwarding goroutine
    recon,     \* InterfaceGenerator.reconcileInterfaces: its position and its locals
    proc,      \* the runtimed process: its signal handler, the signal sent to it, its end
    callers,   \* goroutines calling an OwnershipStore concurrently: the call each is in
    replica    \* per replaying subscriber: the content it has built from its events

vars == << data, watchers, mu, frame, chans, ctxDone, gor, seen, start, commits, call,
           via, generators, wg, tasks, startCall, stopCall, rootCtx, shutdownCtx,
           typed, recon, proc, callers, replica >>

\* The variables of the store.
storeVars == << data, watchers, mu, frame, chans, ctxDone, gor, seen, start, commits >>

\* What a replaying subscriber holds after it has applied event: Created and
\* Updated set the entry of the record's name to the payload, Deleted removes it.
Apply(content, event) ==
    IF event.type = "Deleted"
    THEN [n \in DOMAIN content \ {event.resource.metadata.name} |-> content[n]]
    ELSE [n \in DOMAIN content \cup {event.resource.metadata.name} |->
              IF n = event.resource.metadata.name THEN event.resource ELSE content[n]]

\* The replicas after a step: a subscriber that took an event out of its stream
\* in the step has applied it.
Replayed ==
    [ch \in DOMAIN replica |->
        IF seen'[ch] # seen[ch] THEN Apply(replica[ch], Head(chans[ch].buf))
        ELSE replica[ch]]

\* A step in which no goroutine of Start or Stop moves, no context of theirs
\* is cancelled and no concurrent caller of a wrapper moves.
NoLifecycleStep ==
    /\ UNCHANGED << wg, tasks, startCall, stopCall, rootCtx, shutdownCtx, proc, callers >>
    /\ replica' = Replayed

\* ------------------------------------------------------------------ reconciler
\* InterfaceGeneratorType.Name()
InterfaceGeneratorName == "network-interfaces"

\* What netlink reports of a link: attrs.Name, attrs.HardwareAddr and whether
\* netlink.AddrList(link, ...) fails.
Link(name, mac, addrErr) == [Name |-> name, HardwareAddr |-> mac, AddrErr |-> addrErr]

\* iface := &api.NetworkInterface{InterfaceName: name, MacAddress: ...}
Probed(link) ==
    [tag |-> "network_interface", mac_address |-> link.HardwareAddr,
     interface_name |-> link.Name]

\* reconcileInterfaces between two ticks, before its first.
NoReconcile ==
    [pc |-> "idle", links |-> << >>, todo |-> << >>, storedMap |-> {}, ended |-> FALSE]

\* The links left for the loop over links: those whose AddrList fails are passed
\* over (continue).
RECURSIVE Skip(_)
Skip(todo) ==
    IF todo = << >> THEN todo
    ELSE IF Head(todo).AddrErr THEN Skip(Tail(todo))
    ELSE todo

\* Where reconcileInterfaces stands with todo and storedMap left: at the Get of
\* the next link, at a Delete of the second loop, or at its return.
At(r) ==
    IF r.todo # << >> THEN [r EXCEPT !.pc = "get"]
    ELSE IF r.storedMap # {} THEN [r EXCEPT !.pc = "delete"]
    ELSE [r EXCEPT !.pc = "return"]

\* Mutant of DeleteFromMap: the name stays in storedMap.
KeepInMap(storedMap, name) == storedMap

\* delete(storedMap, name)
DeleteFromMap(storedMap, name) == storedMap \ {name}

\* The call v is one on the store the Runtime gave to the interface generator:
\* only the generator holds that OwnershipStore.
ByGenerator(v) ==
    /\ v.op # "none"
    /\ v.wrapper # Nil
    /\ "owner" \in DOMAIN v.wrapper
    /\ v.wrapper.owner = InterfaceGeneratorName

\* reconcileInterfaces after the call v on its store, whose outcome in the
\* memoryStore is c: it goes on when the call has returned (errors of Update,
\* Create and Delete are logged only).
AfterCall(v, c) ==
    IF ~ByGenerator(v) \/ v.pc = "fetched" THEN recon
    ELSE IF recon.pc = "list"
    THEN IF v.err # Nil THEN [recon EXCEPT !.pc = "return"]
         ELSE At([recon EXCEPT !.storedMap = { r.spec.interface_name : r \in c.val },
                               !.todo = Skip(recon.links)])
    ELSE IF recon.pc = "get"
    THEN [recon EXCEPT !.pc = IF v.err = Nil /\ c.res = "ok" THEN "update" ELSE "create"]
    ELSE IF recon.pc \in {"update", "create"}
    THEN At([recon EXCEPT !.storedMap = DeleteFromMap(@, Head(recon.todo).Name),
                          !.todo = Skip(Tail(@))])
    ELSE IF recon.pc = "delete"
    THEN At([recon EXCEPT !.storedMap = @ \ {v.arg[2]}])
    ELSE recon

\* A step of the store or of a wrapper call: the goroutines of the Runtime and of
\* the typed streams stay where they are.
StoreStepOnly == NoLifecycleStep /\ UNCHANGED typed /\ recon' = AfterCall(via', call')

\* A step in which no goroutine of the Runtime and no generator moves.
NoGeneratorStep == NoLifecycleStep /\ UNCHANGED recon

\* ------------------------------------------------------------------ maps
EmptyMap == [x \in {} |-> Nil]
Put(m, k, v) == [x \in (DOMAIN m) \cup {k} |-> IF x = k THEN v ELSE m[x]]
Remove(m, k) == [x \in (DOMAIN m) \ {k} |-> m[x]]

\* s.data[kind][name], Nil when either map lacks the key.
Lookup(kind, name) ==
    IF kind \in DOMAIN data /\ name \in DOMAIN data[kind] THEN data[kind][name] ELSE Nil

\* Mutant of Exists: Create never finds the entry.
NeverExists(kind, name) == FALSE

\* _, exists := s.data[kind][name]
Exists(kind, name) == Lookup(kind, name) # Nil

\* Mutant of HasFinalizers: Delete does not look at the finalizers.
IgnoreFinalizers(resource) == FALSE

\* len(resource.Metadata.Finalizers) > 0
HasFinalizers(resource) == Len(resource.metadata.finalizers) > 0

\* Mutant of Stamp: the generation the caller sent is kept.
KeepCallerGeneration(existing, resource) == resource

\* Mutant of Stamp: an update skips a generation.
StampSkipping(existing, resource) ==
    [resource EXCEPT !.metadata.generation = existing.metadata.generation + 2]

\* Mutant of Stamp: the generation the caller sent is incremented.
StampFromCaller(existing, resource) ==
    [resource EXCEPT !.metadata.generation = resource.metadata.generation + 1]

\* resource.Metadata.Generation = existing.Metadata.Generation + 1
Stamp(existing, resource) ==
    [resource EXCEPT !.metadata.generation = existing.metadata.generation + 1]

\* Mutant of OwnerConflict: Update does not look at the owners.
NoOwnerCheck(existing, resource) == FALSE

\* existing.Metadata.Owner != "" && existing.Metadata.Owner != resource.Metadata.Owner
OwnerConflict(existing, resource) ==
    existing.metadata.owner # "" /\ existing.metadata.owner # resource.metadata.owner

\* proto.Clone: a deep copy (values are immutable here, so the copy is the value).
Clone(r) == r
\* Mutant of ProtoEqual: existing == resource compares the pointers, and the
\* caller's record is never the stored copy.
PointerEqual(a, b) == FALSE

\* proto.Equal: deep structural equality of metadata and spec.
ProtoEqual(a, b) == a = b

NoCall == [op |-> "none", arg |-> Nil, res |-> "ok", val |-> Nil, before |-> Nil, c0 |-> 0]
Call(op, arg, res, val, before) ==
    [op |-> op, arg |-> arg, res |-> res, val |-> val, before |-> before, c0 |-> commits]

\* The record of a call on a wrapper: the wrapper, the operation and its argument
\* as the caller passed them, whether the call has fetched the stored record and
\* not delegated yet, and the error the wrappers returned themselves (Nil when
\* the call went on to the memoryStore: its outcome is then in call), with the
\* record stored under the addressed entry and the number of commits at the call.
NoVia ==
    [wrapper |-> Nil, op |-> "none", arg |-> Nil, pc |-> "done", err |-> Nil,
     before |-> Nil, c0 |-> 0]
Via(wrapper, op, arg, before) ==
    [wrapper |-> wrapper, op |-> op, arg |-> arg, pc |-> "done", err |-> Nil,
     before |-> before, c0 |-> commits]

\* The goroutines that call an OwnershipStore at the same time.
CallerIds == {1, 2}

\* A goroutine that is in no call.
IdleCaller ==
    [pc |-> "idle", owner |-> "", op |-> "none", kind |-> "", name |-> "",
     resource |-> Nil, removed |-> "none"]

Init ==
    /\ data = EmptyMap
    /\ watchers = [k \in Kinds |-> << >>]
    /\ mu = "unlocked"
    /\ frame = Nil
    /\ chans = EmptyMap
    /\ ctxDone = [c \in Contexts |-> FALSE]
    /\ gor = EmptyMap
    /\ seen = EmptyMap
    /\ start = EmptyMap
    /\ commits = 0
    /\ call = NoCall
    /\ via = NoVia
    /\ generators = EmptyMap
    /\ wg = 0
    /\ tasks = EmptyMap
    /\ startCall = [pc |-> "idle", todo |-> {}, res |-> "none"]
    /\ stopCall = [pc |-> "idle", done |-> FALSE, inflight |-> {}, res |-> "none"]
    /\ rootCtx = FALSE
    /\ shutdownCtx = FALSE
    /\ typed = EmptyMap
    /\ recon = NoReconcile
    /\ proc = [notify |-> FALSE, signal |-> "none", killed |-> FALSE]
    /\ callers = [id \in CallerIds |-> IdleCaller]
    /\ replica = EmptyMap

\* ------------------------------------------------------------------ reads
\* Mutant of GetResult: Get of a missing entry returns no record and no error.
GetMissingReturnsNil(kind, name) ==
    IF Lookup(kind, name) = Nil THEN [res |-> "ok", val |-> Nil]
    ELSE [res |-> "ok", val |-> Clone(data[kind][name])]

\* Get's body under RLock: the error or a copy of the stored record.
GetResult(kind, name) ==
    IF kind \notin DOMAIN data THEN [res |-> "ErrKindNotFound", val |-> Nil]
    ELSE IF name \notin DOMAIN data[kind] THEN [res |-> "ErrNotFound", val |-> Nil]
    ELSE [res |-> "ok", val |-> Clone(data[kind][name])]

Get(kind, name) ==
    /\ mu = "unlocked"
    /\ call' = Call("Get", <<kind, name>>, GetResult(kind, name).res,
                    GetResult(kind, name).val, Lookup(kind, name))
    /\ UNCHANGED << data, watchers, mu, frame, chans, ctxDone, gor, seen, start, commits >>

\* List's body under RLock: copies of every record of the kind (order unspecified).
ListResult(kind) ==
    IF kind \notin DOMAIN data THEN {}
    ELSE { Clone(data[kind][n]) : n \in DOMAIN data[kind] }

List(kind) ==
    /\ mu = "unlocked"
    /\ call' = Call("List", kind, "ok", ListResult(kind), Nil)
    /\ UNCHANGED << data, watchers, mu, frame, chans, ctxDone, gor, seen, start, commits >>

\* ------------------------------------------------------------------ notify
\* Mutant of Event: the snapshot of an update is taken before the generation is
\* stamped.
EventBeforeStamp(eventType, resource) ==
    [type |-> eventType,
     resource |-> IF eventType = "Updated"
                  THEN [resource EXCEPT !.metadata.generation = @ - 1]
                  ELSE resource,
     seq |-> commits + 1]

Event(eventType, resource) ==
    [type |-> eventType, resource |-> Clone(resource), seq |-> commits + 1]

\* Mutant of WatchersOf: notify sends to the watchers of every kind.
AllWatchers(kind) == watchers["NetworkInterface"] \o watchers["DHCPClient"]

\* watchers := s.watchers[kind]: no channels for a kind nobody watches.
WatchersOf(kind) == IF kind \in DOMAIN watchers THEN watchers[kind] ELSE << >>

\* Mutant of Full: a channel always has room.
NeverFull(c) == FALSE

\* A send on c would block: its buffer holds as many events as it has room for.
Full(c) == Len(chans[c].buf) >= ChanCap

\* Mutant of Send: the event goes in front of the buffered ones.
SendFront(buf, event) == << event >> \o buf

\* ch <- event on a channel with room
Send(buf, event) == Append(buf, event)

\* The position at which notify's loop, entered at position i, blocks on a full
\* channel; Len(ws) + 1 when it runs to the end.
StopAt(ws, i) ==
    IF \E j \in i..Len(ws) : Full(ws[j])
    THEN CHOOSE j \in i..Len(ws) : Full(ws[j]) /\ \A h \in i..(j - 1) : ~Full(ws[h])
    ELSE Len(ws) + 1

\* notify's loop `for _, ch := range watchers { ch <- event }` from position i,
\* run by the writer that holds mu. It sends until a full channel blocks it; the
\* writer returns (and its deferred Unlock runs) when the loop has run to the end.
Deliver(event, c, i) ==
    LET ws == WatchersOf(event.resource.metadata.kind)
        j == StopAt(ws, i)
        sent == { ws[h] : h \in i..(j - 1) }
    IN  /\ chans' = [ch \in DOMAIN chans |->
                        IF ch \in sent THEN [chans[ch] EXCEPT !.buf = Send(@, event)]
                        ELSE chans[ch]]
        /\ IF j > Len(ws)
           THEN /\ mu' = "unlocked"
                /\ frame' = Nil
                /\ call' = [c EXCEPT !.res = "ok"]
           ELSE /\ mu' = "locked"
                /\ frame' = [event |-> event, i |-> j, call |-> c]
                /\ call' = [c EXCEPT !.res = "pending"]

notify(eventType, resource, c) ==
    /\ commits' = commits + 1
    /\ Deliver(Event(eventType, resource), c, 1)

\* The blocked send of the writer inside notify goes through once the channel
\* has room, and the loop goes on.
NotifyResume ==
    /\ frame # Nil
    /\ ~Full(WatchersOf(frame.event.resource.metadata.kind)[frame.i])
    /\ Deliver(frame.event, frame.call, frame.i)
    /\ UNCHANGED << data, watchers, ctxDone, gor, seen, start, commits >>

\* ------------------------------------------------------------------ writes
Create(resource) ==
    IF resource.metadata = Nil
    THEN /\ call' = Call("Create", resource, "ErrMetadataRequired", Nil, Nil)
         /\ UNCHANGED << data, watchers, mu, frame, chans, ctxDone, gor, seen, start, commits >>
    ELSE LET kind == resource.metadata.kind
             name == resource.metadata.name
             existing == Lookup(kind, name)
         IN  /\ mu = "unlocked"
             /\ IF Exists(kind, name)
                THEN /\ call' = Call("Create", resource, "ErrAlreadyExists", Nil, existing)
                     /\ UNCHANGED << data, watchers, mu, frame, chans, ctxDone, gor, seen,
                                     start, commits >>
                ELSE /\ commits < MaxCommits
                     /\ data' = Put(data, kind,
                                    Put(IF kind \in DOMAIN data THEN data[kind] ELSE EmptyMap,
                                        name, Clone(resource)))
                     /\ notify("Created", resource, Call("Create", resource, "ok", Nil, existing))
                     /\ UNCHANGED << watchers, ctxDone, gor, seen, start >>

Update(resource) ==
    IF resource.metadata = Nil
    THEN /\ call' = Call("Update", resource, "ErrMetadataRequired", Nil, Nil)
         /\ UNCHANGED << data, watchers, mu, frame, chans, ctxDone, gor, seen, start, commits >>
    ELSE LET kind == resource.metadata.kind
             name == resource.metadata.name
             existing == Lookup(kind, name)
         IN  /\ mu = "unlocked"
             /\ IF existing = Nil
                THEN /\ call' = Call("Update", resource, "ErrNotFound", Nil, existing)
                     /\ UNCHANGED << data, watchers, mu, frame, chans, ctxDone, gor, seen,
                                     start, commits >>
                ELSE IF OwnerConflict(existing, resource)
                THEN /\ call' = Call("Update", resource, "ErrOwner", Nil, existing)
                     /\ UNCHANGED << data, watchers, mu, frame, chans, ctxDone, gor, seen,
                                     start, commits >>
                ELSE IF ProtoEqual(existing, resource)
                THEN /\ call' = Call("Update", resource, "ok", Nil, existing)
                     /\ UNCHANGED << data, watchers, mu, frame, chans, ctxDone, gor, seen,
                                     start, commits >>
                ELSE LET stamped == Stamp(existing, resource)
                     IN  /\ commits < MaxCommits
                         /\ data' = [data EXCEPT ![kind] = Put(@, name, Clone(stamped))]
                         /\ notify("Updated", stamped,
                                   Call("Update", resource, "ok", Nil, existing))
                         /\ UNCHANGED << watchers, ctxDone, gor, seen, start >>

Delete(kind, name) ==
    /\ mu = "unlocked"
    /\ IF kind \notin DOMAIN data
       THEN /\ call' = Call("Delete", <<kind, name>>, "ErrKindNotFound", Nil, Nil)
            /\ UNCHANGED << data, watchers, mu, frame, chans, ctxDone, gor, seen, start, commits >>
       ELSE IF name \notin DOMAIN data[kind]
       THEN /\ call' = Call("Delete", <<kind, name>>, "ErrNotFound", Nil, Nil)
            /\ UNCHANGED << data, watchers, mu, frame, chans, ctxDone, gor, seen, start, commits >>
       ELSE LET resource == data[kind][name]
            IN  IF HasFinalizers(resource)
                THEN /\ call' = Call("Delete", <<kind, name>>, "ErrFinalizers", Nil, resource)
                     /\ UNCHANGED << data, watchers, mu, frame, chans, ctxDone, gor, seen,
                                     start, commits >>
                ELSE /\ commits < MaxCommits
                     /\ data' = [data EXCEPT ![kind] = Remove(@, name)]
                     /\ notify("Deleted", resource,
                               Call("Delete", <<kind, name>>, "ok", Nil, resource))
                     /\ UNCHANGED << watchers, ctxDone, gor, seen, start >>

\* ------------------------------------------------------------------ watch
Watch(ctx, kind) ==
    /\ mu = "unlocked"
    /\ ctx \notin DOMAIN chans
    /\ chans' = Put(chans, ctx, [buf |-> << >>, closed |-> FALSE])
    /\ watchers' = [watchers EXCEPT ![kind] = Append(@, ctx)]
    /\ gor' = Put(gor, ctx, [kind |-> kind, pc |-> "waitDone"])
    /\ seen' = Put(seen, ctx, 0)
    /\ start' = Put(start, ctx, commits)
    /\ call' = Call("Watch", kind, "ok", ctx, Nil)
    /\ UNCHANGED << data, mu, frame, ctxDone, commits >>

\* The caller cancels the context it passed to Watch.
Cancel(ch) ==
    /\ ~ctxDone[ch]
    /\ ctxDone' = [ctxDone EXCEPT ![ch] = TRUE]
    /\ call' = NoCall
    /\ UNCHANGED << data, watchers, mu, frame, chans, gor, seen, start, commits >>

\* Mutant of RemoveAt: the channel stays in the subscriber table.
KeepAt(ws, i) == ws

\* append(watchers[:i], watchers[i+1:]...)
RemoveAt(ws, i) == SubSeq(ws, 1, i - 1) \o SubSeq(ws, i + 1, Len(ws))

\* The goroutine started by Watch: after <-ctx.Done() it takes mu, removes the
\* channel from the kind's watchers and closes it.
WatchCleanup(ch) ==
    /\ ch \in DOMAIN gor
    /\ gor[ch].pc = "waitDone"
    /\ ctxDone[ch]
    /\ mu = "unlocked"
    /\ LET ws == watchers[gor[ch].kind]
       IN  IF \E i \in 1..Len(ws) : ws[i] = ch
           THEN /\ watchers' = [watchers EXCEPT ![gor[ch].kind] =
                                   RemoveAt(ws, CHOOSE i \in 1..Len(ws) : ws[i] = ch)]
                /\ chans' = [chans EXCEPT ![ch].closed = TRUE]
           ELSE UNCHANGED << watchers, chans >>
    /\ gor' = [gor EXCEPT ![ch].pc = "done"]
    /\ call' = NoCall
    /\ UNCHANGED << data, mu, frame, ctxDone, seen, start, commits >>

\* The consumer of a stream takes the next event out of the channel.
Receive(ch) ==
    /\ ch \in DOMAIN chans
    /\ Len(chans[ch].buf) > 0
    /\ seen' = [seen EXCEPT ![ch] = Head(chans[ch].buf).seq]
    /\ chans' = [chans EXCEPT ![ch].buf = Tail(@)]
    /\ call' = NoCall
    /\ UNCHANGED << data, watchers, mu, frame, ctxDone, gor, start, commits >>

\* ------------------------------------------------------------------ pointers
\* A *pb.Resource is a pointer. An object is named by the place that made it (the
\* caller, or one of the proto.Clone calls of the store), by the entry it belongs
\* to and, for the copy made by a notify call, by the number of that call.
Pointer(site, kind, name, n) == [site |-> site, kind |-> kind, name |-> name, n |-> n]

\* Mutant of ClonePointer: the pointer itself is handed on.
SamePointer(ptr, site, n) == ptr

\* proto.Clone(ptr): a pointer to a new object, made at site.
ClonePointer(ptr, site, n) == [ptr EXCEPT !.site = site, !.n = n]

\* The record a caller passes to Create or Update.
ArgPointer(kind, name) == Pointer("caller", kind, name, 0)

\* s.data[kind][name] = proto.Clone(resource)
SlotPointer(kind, name) == ClonePointer(ArgPointer(kind, name), "data", 0)

\* return proto.Clone(resource) in Get, append(result, proto.Clone(r)) in List
ReturnedPointer(kind, name) == ClonePointer(SlotPointer(kind, name), "returned", 0)

\* Event.Resource: the one proto.Clone(resource) of a notify call, where resource
\* is the caller's record (Create, Update) or the removed record (Delete). Every
\* send of the loop copies the Event struct, and with it this pointer.
ResourcePointer(event) ==
    LET kind == event.resource.metadata.kind
        name == event.resource.metadata.name
    IN  ClonePointer(IF event.type = "Deleted" THEN SlotPointer(kind, name)
                     ELSE ArgPointer(kind, name),
                     "event", event.seq)

\* What a holder of a record does to it: r.Metadata.Annotations["touched"] = "yes".
Touched == [x \in {"touched"} |-> "yes"]
Mutated(r) == [r EXCEPT !.metadata.annotations = Touched]

\* A write through ptr as the store sees it: the stored record changes if ptr is
\* the pointer the entry holds.
WriteStored(ptr) ==
    [kind \in DOMAIN data |->
        [name \in DOMAIN data[kind] |->
            IF SlotPointer(kind, name) = ptr THEN Mutated(data[kind][name])
            ELSE data[kind][name]]]

\* A write through ptr as an event sees it.
WriteEvent(ptr, event) ==
    IF ResourcePointer(event) = ptr THEN [event EXCEPT !.resource = Mutated(@)] ELSE event

\* A write through ptr as the events waiting in a buffer see it.
WriteBuffer(ptr, buf) == [i \in 1..Len(buf) |-> WriteEvent(ptr, buf[i])]

\* A write through ptr as the writer blocked in notify sees it.
WriteFrame(ptr) ==
    IF frame = Nil THEN frame ELSE [frame EXCEPT !.event = WriteEvent(ptr, @)]

\* The caller changes a record that Get or List returned to it.
MutateReturned ==
    /\ call.op \in {"Get", "List"}
    /\ call.res = "ok"
    /\ \E r \in (IF call.op = "Get" THEN {call.val} ELSE call.val) :
          LET kind == r.metadata.kind
              name == r.metadata.name
              ptr == ReturnedPointer(kind, name)
          IN  /\ data' = WriteStored(ptr)
              /\ chans' = [ch \in DOMAIN chans |->
                              [chans[ch] EXCEPT !.buf = WriteBuffer(ptr, @)]]
              /\ frame' = WriteFrame(ptr)
              /\ call' = Call("MutateReturned", <<kind, name>>, "ok", Mutated(r),
                              Lookup(kind, name))
    /\ UNCHANGED << watchers, mu, ctxDone, gor, seen, start, commits >>

\* The caller changes the record it passed to Create or Update, after the call
\* has returned.
MutateArgument ==
    /\ call.op \in {"Create", "Update"}
    /\ call.res = "ok"
    /\ LET kind == call.arg.metadata.kind
           name == call.arg.metadata.name
           ptr == ArgPointer(kind, name)
       IN  /\ data' = WriteStored(ptr)
           /\ chans' = [ch \in DOMAIN chans |->
                           [chans[ch] EXCEPT !.buf = WriteBuffer(ptr, @)]]
           /\ frame' = WriteFrame(ptr)
           /\ call' = Call("MutateArgument", <<kind, name>>, "ok", Mutated(call.arg),
                           Lookup(kind, name))
    /\ UNCHANGED << watchers, mu, ctxDone, gor, seen, start, commits >>

\* The consumer of a stream takes the next event out of the channel and changes
\* the record it carries.
MutateReceived(ch) ==
    /\ ch \in DOMAIN chans
    /\ Len(chans[ch].buf) > 0
    /\ LET event == Head(chans[ch].buf)
           kind == event.resource.metadata.kind
           name == event.resource.metadata.name
           ptr == ResourcePointer(event)
       IN  /\ seen' = [seen EXCEPT ![ch] = event.seq]
           /\ data' = WriteStored(ptr)
           /\ chans' = [c \in DOMAIN chans |->
                           [chans[c] EXCEPT !.buf =
                               WriteBuffer(ptr, IF c = ch THEN Tail(@) ELSE @)]]
           /\ frame' = WriteFrame(ptr)
           /\ call' = Call("MutateReceived", <<kind, name>>, "ok", Mutated(event.resource),
                           Lookup(kind, name))
    /\ UNCHANGED << watchers, mu, ctxDone, gor, start, commits >>

\* ------------------------------------------------------------------ wrappers
\* The stores a wrapper is built over: the memoryStore, or a TypeRestrictedStore
\* over the memoryStore with its allowedKinds.
memoryStore == [restricted |-> FALSE, allowedKinds |-> {}]
NewTypeRestrictedStore(allowedKinds) == [restricted |-> TRUE, allowedKinds |-> allowedKinds]
\* An OwnershipStore over store.
NewOwnershipStore(store, owner) == [owner |-> owner, store |-> store]

Errorf(text) == [type |-> "error", text |-> text]
NewTypeRestrictedError(kind, action) ==
    [type |-> "TypeRestrictedError", ResourceKind |-> kind, Action |-> action]
NewOwnershipError(kind, name, owner, action) ==
    [type |-> "OwnershipError", ResourceKind |-> kind, ResourceName |-> name,
     Owner |-> owner, Action |-> action]

\* Mutant of checkKindAllowed: every kind is allowed.
AllowEveryKind(store, kind, action) == Nil

\* TypeRestrictedStore.checkKindAllowed; the memoryStore has no such check.
checkKindAllowed(store, kind, action) ==
    IF store.restricted /\ kind \notin store.allowedKinds
    THEN NewTypeRestrictedError(kind, action)
    ELSE Nil

\* A wrapper returns err itself: the memoryStore is not called.
Return(v, err) ==
    /\ via' = [v EXCEPT !.err = err]
    /\ call' = NoCall
    /\ UNCHANGED << data, watchers, mu, frame, chans, ctxDone, gor, seen, start, commits,
                    generators >>
    /\ StoreStepOnly

\* The call went on to the memoryStore, whose action is the other conjunct.
Delegated(v) ==
    /\ via' = v
    /\ UNCHANGED generators
    /\ StoreStepOnly

\* The six operations on store (the memoryStore, or a TypeRestrictedStore over
\* it), called by the caller or by the wrapper that v records.
StoreGet(store, kind, name, v) ==
    IF checkKindAllowed(store, kind, "get") # Nil
    THEN Return(v, checkKindAllowed(store, kind, "get"))
    ELSE Get(kind, name) /\ Delegated(v)

StoreList(store, kind, v) ==
    IF checkKindAllowed(store, kind, "list") # Nil
    THEN Return(v, checkKindAllowed(store, kind, "list"))
    ELSE List(kind) /\ Delegated(v)

StoreCreate(store, resource, v) ==
    IF store.restricted /\ resource.metadata = Nil
    THEN Return(v, Errorf("resource metadata is required"))
    ELSE IF resource.metadata # Nil
            /\ checkKindAllowed(store, resource.metadata.kind, "create") # Nil
    THEN Return(v, checkKindAllowed(store, resource.metadata.kind, "create"))
    ELSE Create(resource) /\ Delegated(v)

StoreUpdate(store, resource, v) ==
    IF store.restricted /\ resource.metadata = Nil
    THEN Return(v, Errorf("resource metadata is required"))
    ELSE IF resource.metadata # Nil
            /\ checkKindAllowed(store, resource.metadata.kind, "update") # Nil
    THEN Return(v, checkKindAllowed(store, resource.metadata.kind, "update"))
    ELSE Update(resource) /\ Delegated(v)

StoreDelete(store, kind, name, v) ==
    IF checkKindAllowed(store, kind, "delete") # Nil
    THEN Return(v, checkKindAllowed(store, kind, "delete"))
    ELSE Delete(kind, name) /\ Delegated(v)

StoreWatch(store, ctx, kind, v) ==
    IF checkKindAllowed(store, kind, "watch") # Nil
    THEN Return(v, checkKindAllowed(store, kind, "watch"))
    ELSE Watch(ctx, kind) /\ Delegated(v)

\* The record stored under the entry that resource addresses.
Addressed(resource) ==
    IF resource.metadata = Nil THEN Nil
    ELSE Lookup(resource.metadata.kind, resource.metadata.name)

\* No wrapper call is between its Get and its Update or Delete.
Idle == via.pc = "done"

\* TypeRestrictedStore: the operations of a caller that holds the wrapper.
TypeRestrictedGet(store, kind, name) ==
    Idle /\ StoreGet(store, kind, name, Via(store, "get", <<kind, name>>, Lookup(kind, name)))
TypeRestrictedList(store, kind) ==
    Idle /\ StoreList(store, kind, Via(store, "list", kind, Nil))
TypeRestrictedCreate(store, resource) ==
    Idle /\ StoreCreate(store, resource, Via(store, "create", resource, Addressed(resource)))
TypeRestrictedUpdate(store, resource) ==
    Idle /\ StoreUpdate(store, resource, Via(store, "update", resource, Addressed(resource)))
TypeRestrictedDelete(store, kind, name) ==
    Idle /\ StoreDelete(store, kind, name, Via(store, "delete", <<kind, name>>, Lookup(kind, name)))
TypeRestrictedWatch(store, ctx, kind) ==
    Idle /\ StoreWatch(store, ctx, kind, Via(store, "watch", kind, Nil))

\* Mutant of SetOwner: the owner the caller sent is kept.
KeepOwner(resource, owner) == resource

\* resource.Metadata.Owner = s.owner
SetOwner(resource, owner) == [resource EXCEPT !.metadata.owner = owner]

\* Mutant of NotOwnedBy: the wrapper takes every resource for its own.
OwnedByAnyone(existing, owner) == FALSE

\* existing.Metadata.Owner != s.owner
NotOwnedBy(existing, owner) == existing.metadata.owner # owner

\* OwnershipStore.Get, List and Watch hand the call to the store below.
OwnershipGet(w, kind, name) ==
    Idle /\ StoreGet(w.store, kind, name, Via(w, "get", <<kind, name>>, Lookup(kind, name)))
OwnershipList(w, kind) ==
    Idle /\ StoreList(w.store, kind, Via(w, "list", kind, Nil))
OwnershipWatch(w, ctx, kind) ==
    Idle /\ StoreWatch(w.store, ctx, kind, Via(w, "watch", kind, Nil))

OwnershipCreate(w, resource) ==
    /\ Idle
    /\ IF resource.metadata = Nil
       THEN Return(Via(w, "create", resource, Addressed(resource)), Errorf("resource metadata is required"))
       ELSE IF resource.metadata.owner # "" /\ resource.metadata.owner # w.owner
       THEN Return(Via(w, "create", resource, Addressed(resource)),
                   Errorf("cannot create resource with different owner"))
       ELSE StoreCreate(w.store, SetOwner(resource, w.owner), Via(w, "create", resource, Addressed(resource)))

\* existing, err := s.store.Get(ctx, kind, name) and the ownership check of
\* Update and Delete: the call returns the error of the Get or an OwnershipError,
\* or it is left holding the record it fetched.
Fetch(w, kind, name, v, action) ==
    IF checkKindAllowed(w.store, kind, "get") # Nil
    THEN Return(v, checkKindAllowed(w.store, kind, "get"))
    ELSE /\ Get(kind, name)
         /\ UNCHANGED generators
         /\ via' = IF GetResult(kind, name).res # "ok"
                   THEN [v EXCEPT !.err = Errorf(GetResult(kind, name).res)]
                   ELSE IF NotOwnedBy(GetResult(kind, name).val, w.owner)
                   THEN [v EXCEPT !.err = NewOwnershipError(kind, name,
                                              GetResult(kind, name).val.metadata.owner,
                                              action)]
                   ELSE [v EXCEPT !.pc = "fetched"]
         /\ StoreStepOnly

\* OwnershipStore.Update up to its ownership check.
OwnershipUpdate(w, resource) ==
    /\ Idle
    /\ IF resource.metadata = Nil
       THEN Return(Via(w, "update", resource, Addressed(resource)), Errorf("resource metadata is required"))
       ELSE Fetch(w, resource.metadata.kind, resource.metadata.name,
                  Via(w, "update", resource, Addressed(resource)), "update")

\* OwnershipStore.Delete up to its ownership check.
OwnershipDelete(w, kind, name) ==
    /\ Idle
    /\ Fetch(w, kind, name, Via(w, "delete", <<kind, name>>, Lookup(kind, name)), "delete")

\* The rest of OwnershipStore.Update and Delete: the call on the store below.
OwnershipDelegate ==
    /\ via.pc = "fetched"
    /\ IF via.op = "update"
       THEN StoreUpdate(via.wrapper.store, SetOwner(via.arg, via.wrapper.owner),
                        [via EXCEPT !.pc = "done"])
       ELSE StoreDelete(via.wrapper.store, via.arg[1], via.arg[2],
                        [via EXCEPT !.pc = "done"])

\* ------------------------------------------------------------------ concurrent callers
\* A step of a goroutine that calls an OwnershipStore next to others: the call
\* is recorded in callers, the record of the last single wrapper call stays.
CallerStep ==
    /\ via' = IF via.pc = "fetched" THEN via ELSE NoVia
    /\ UNCHANGED << generators, wg, tasks, startCall, stopCall, rootCtx, shutdownCtx,
                    proc, typed, recon >>
    /\ replica' = Replayed

\* OwnershipStore.Create by goroutine id, for a resource that passes the checks
\* of the wrapper: one call on the store below.
CallerCreate(id, w, resource) ==
    /\ callers[id].pc # "fetched"
    /\ resource.metadata # Nil
    /\ resource.metadata.owner \in {"", w.owner}
    /\ Create(SetOwner(resource, w.owner))
    /\ callers' = [callers EXCEPT ![id] = [IdleCaller EXCEPT !.pc = "returned",
                                                            !.owner = w.owner,
                                                            !.op = "create"]]
    /\ CallerStep

\* OwnershipStore.Update and Delete by goroutine id up to the ownership check:
\* existing, err := s.store.Get(ctx, kind, name); the call returns the error of
\* the Get or an OwnershipError, or goes on holding the record it fetched.
CallerFetch(id, w, op, kind, name, resource) ==
    /\ callers[id].pc # "fetched"
    /\ Get(kind, name)
    /\ callers' = [callers EXCEPT ![id] =
           IF GetResult(kind, name).res # "ok"
              \/ NotOwnedBy(GetResult(kind, name).val, w.owner)
           THEN [IdleCaller EXCEPT !.pc = "returned", !.owner = w.owner, !.op = op]
           ELSE [IdleCaller EXCEPT !.pc = "fetched", !.owner = w.owner, !.op = op,
                                   !.kind = kind, !.name = name,
                                   !.resource = resource]]
    /\ CallerStep

CallerUpdate(id, w, resource) ==
    /\ resource.metadata # Nil
    /\ CallerFetch(id, w, "update", resource.metadata.kind, resource.metadata.name,
                   resource)

CallerDelete(id, w, kind, name) == CallerFetch(id, w, "delete", kind, name, Nil)

\* The rest of OwnershipStore.Update and Delete by goroutine id: the call on the
\* store below. A Delete that goes through removes the stored record, whose
\* owner is noted.
CallerDelegate(id) ==
    /\ callers[id].pc = "fetched"
    /\ IF callers[id].op = "update"
       THEN /\ Update(SetOwner(callers[id].resource, callers[id].owner))
            /\ callers' = [callers EXCEPT ![id].pc = "returned"]
       ELSE /\ Delete(callers[id].kind, callers[id].name)
            /\ callers' = [callers EXCEPT
                  ![id].pc = "returned",
                  ![id].removed =
                      IF data' # data
                      THEN data[callers[id].kind][callers[id].name].metadata.owner
                      ELSE "none"]
    /\ CallerStep

\* ------------------------------------------------------------------ typed store
\* The six operations on any Store: an OwnershipStore, or the memoryStore or a
\* TypeRestrictedStore over it.
IsOwnershipStore(store) == "owner" \in DOMAIN store

AnyGet(store, kind, name) ==
    IF IsOwnershipStore(store) THEN OwnershipGet(store, kind, name)
    ELSE TypeRestrictedGet(store, kind, name)
AnyList(store, kind) ==
    IF IsOwnershipStore(store) THEN OwnershipList(store, kind)
    ELSE TypeRestrictedList(store, kind)
AnyCreate(store, resource) ==
    IF IsOwnershipStore(store) THEN OwnershipCreate(store, resource)
    ELSE TypeRestrictedCreate(store, resource)
AnyUpdate(store, resource) ==
    IF IsOwnershipStore(store) THEN OwnershipUpdate(store, resource)
    ELSE TypeRestrictedUpdate(store, resource)
AnyDelete(store, kind, name) ==
    IF IsOwnershipStore(store) THEN OwnershipDelete(store, kind, name)
    ELSE TypeRestrictedDelete(store, kind, name)

\* Mutant of Envelope: the envelope carries the finalizers of the test records.
EnvelopeWithFinalizers(name, spec) ==
    Resource(ResourceMetadata(name, KindFor(spec), "", 0, SomeFinalizers, NoLabels, NoLabels),
             spec)

\* The resource TypedStore.Create and Update build around spec: metadata with
\* the kind of the spec's type and the name, everything else zero.
Envelope(name, spec) ==
    Resource(ResourceMetadata(name, KindFor(spec), "", 0, NoFinalizers, NoLabels, NoLabels),
             spec)

\* TypedStore[T] over store; T is given by the kind registered for it.
TypedGet(store, kind, name) == AnyGet(store, kind, name)
TypedList(store, kind) == AnyList(store, kind)
TypedCreate(store, name, spec) == AnyCreate(store, Envelope(name, spec))
TypedUpdate(store, name, spec) == AnyUpdate(store, Envelope(name, spec))
TypedDelete(store, kind, name) == AnyDelete(store, kind, name)

\* &TypedResource[T]{resource: event.Resource}, with the commit number of the
\* event it was made from.
TypedResource(event) == [resource |-> event.resource, seq |-> event.seq]

\* TypedStore.Watch on a TypedStore over the memoryStore: the Watch of the store
\* with the caller's context, the typed channel and the forwarding goroutine,
\* which starts at its outer select.
TypedWatch(ctx, kind) ==
    /\ Idle
    /\ Watch(ctx, kind)
    /\ typed' = Put(typed, ctx, [buf |-> << >>, closed |-> FALSE, pc |-> "select",
                                 event |-> Nil, taken |-> << >>, sent |-> << >>])
    /\ via' = NoVia
    /\ UNCHANGED generators
    /\ NoGeneratorStep

\* case event, ok := <-events with ok: the goroutine takes the next event of the
\* store's stream and goes to its inner select.
TypedTake(ctx) ==
    /\ ctx \in DOMAIN typed
    /\ typed[ctx].pc = "select"
    /\ Receive(ctx)
    /\ typed' = [typed EXCEPT ![ctx].pc = "send",
                              ![ctx].event = Head(chans[ctx].buf),
                              ![ctx].taken = Append(@, Head(chans[ctx].buf).seq)]
    /\ via' = IF via.pc = "fetched" THEN via ELSE NoVia
    /\ UNCHANGED generators
    /\ NoGeneratorStep

\* case ch <- &TypedResource[T]{...} of the inner select: the typed channel has
\* room.
TypedSend(ctx) ==
    /\ ctx \in DOMAIN typed
    /\ typed[ctx].pc = "send"
    /\ Len(typed[ctx].buf) < ChanCap
    /\ typed' = [typed EXCEPT ![ctx].pc = "select",
                              ![ctx].buf = Append(@, TypedResource(typed[ctx].event)),
                              ![ctx].sent = Append(@, typed[ctx].event.seq),
                              ![ctx].event = Nil]
    /\ UNCHANGED storeVars
    /\ UNCHANGED << call, via, generators >>
    /\ NoGeneratorStep

\* Mutant of Done: the goroutine never sees its context cancelled.
NeverDone(ctx) == FALSE

\* case <-ctx.Done() is ready.
Done(ctx) == ctxDone[ctx]

\* The goroutine returns and its deferred close(ch) runs: through case
\* <-ctx.Done() of either select, or through case event, ok := <-events with
\* !ok, when the stream of the store is closed and empty.
TypedReturn(ctx) ==
    /\ ctx \in DOMAIN typed
    /\ \/ typed[ctx].pc \in {"select", "send"} /\ Done(ctx)
       \/ typed[ctx].pc = "select" /\ chans[ctx].closed /\ Len(chans[ctx].buf) = 0
    /\ typed' = [typed EXCEPT ![ctx].pc = "done", ![ctx].closed = TRUE]
    /\ UNCHANGED storeVars
    /\ UNCHANGED << call, via, generators >>
    /\ NoGeneratorStep

\* The consumer of the typed stream takes the next record out of it.
TypedReceive(ctx) ==
    /\ ctx \in DOMAIN typed
    /\ Len(typed[ctx].buf) > 0
    /\ typed' = [typed EXCEPT ![ctx].buf = Tail(@)]
    /\ UNCHANGED storeVars
    /\ UNCHANGED << call, via, generators >>
    /\ NoGeneratorStep

\* ------------------------------------------------------------------ runtime
\* A GeneratorType: its Name(), its ManagedKinds() and whether its New returns
\* an error.
GeneratorType(name, kinds, fails) == [Name |-> name, ManagedKinds |-> kinds, fails |-> fails]

GeneratorTypes ==
    { GeneratorType("A", {"NetworkInterface"}, FALSE),
      GeneratorType("A", {"DHCPClient"}, FALSE),
      GeneratorType("B", {"NetworkInterface"}, TRUE),
      GeneratorType("B", {"DHCPClient"}, FALSE) }

\* Mutant of Registered: no name is ever found in the registry.
NeverRegistered(name) == FALSE

\* _, exists := r.generators[name]
Registered(name) == name \in DOMAIN generators

\* The store RegisterGenerator hands to the generator.
restrictedStore(genType) ==
    NewOwnershipStore(NewTypeRestrictedStore(genType.ManagedKinds), genType.Name)

\* genType.New(GeneratorContext{Store: restrictedStore, ...}): the generator keeps
\* the store it is given.
New(genType) == [Store |-> restrictedStore(genType)]

RegisterGenerator(genType) ==
    /\ Idle
    /\ IF Registered(genType.Name)
       THEN /\ call' = Call("RegisterGenerator", genType, "ErrAlreadyRegistered", Nil,
                            generators)
            /\ UNCHANGED generators
       ELSE IF genType.fails
       THEN /\ call' = Call("RegisterGenerator", genType, "ErrNew", Nil, generators)
            /\ UNCHANGED generators
       ELSE /\ call' = Call("RegisterGenerator", genType, "ok", New(genType), generators)
            /\ generators' = Put(generators, genType.Name, New(genType))
    /\ via' = NoVia
    /\ UNCHANGED << data, watchers, mu, frame, chans, ctxDone, gor, seen, start, commits >>
    /\ StoreStepOnly

\* ------------------------------------------------------------------ lifecycle
\* What a Generator's Run returns: nil or an error.
RunResults == {"nil", "error"}

\* Mutant of Wait: wg.Wait() returns at once.
NoWait == TRUE

\* r.wg.Wait() returns when the counter is zero.
Wait == wg = 0

\* Runtime.Start is called with ctx (the root context): it enters its loop over
\* r.generators. Generators are registered before the Runtime is started.
Start ==
    /\ startCall.pc = "idle"
    /\ startCall' = [startCall EXCEPT !.pc = "range", !.todo = DOMAIN generators]
    /\ UNCHANGED << wg, tasks, stopCall, rootCtx, shutdownCtx >>
    /\ UNCHANGED storeVars
    /\ UNCHANGED << call, via, generators, typed, recon, proc, callers, replica >>

\* One iteration of Start's loop: r.wg.Add(1) and the go statement. The map is
\* ranged over in no fixed order.
StartGo(name) ==
    /\ startCall.pc = "range"
    /\ name \in startCall.todo
    /\ wg' = wg + 1
    /\ tasks' = Put(tasks, name, [pc |-> "spawned", ctx |-> "root", res |-> "none"])
    /\ startCall' = [startCall EXCEPT !.todo = @ \ {name}]
    /\ UNCHANGED << stopCall, rootCtx, shutdownCtx >>
    /\ UNCHANGED storeVars
    /\ UNCHANGED << call, via, generators, typed, recon, proc, callers, replica >>

\* The goroutine of a generator is scheduled and calls gen.Run(ctx).
TaskRun(name) ==
    /\ name \in DOMAIN tasks
    /\ tasks[name].pc = "spawned"
    /\ tasks' = [tasks EXCEPT ![name].pc = "running"]
    /\ UNCHANGED << wg, startCall, stopCall, rootCtx, shutdownCtx >>
    /\ UNCHANGED storeVars
    /\ UNCHANGED << call, via, generators, typed, recon, proc, callers, replica >>

\* gen.Run(ctx) returns res; an error is logged, and the deferred r.wg.Done()
\* runs.
TaskReturn(name, res) ==
    /\ name \in DOMAIN tasks
    /\ tasks[name].pc = "running"
    /\ tasks' = [tasks EXCEPT ![name].pc = "returned", ![name].res = res]
    /\ wg' = wg - 1
    /\ UNCHANGED << startCall, stopCall, rootCtx, shutdownCtx >>
    /\ UNCHANGED storeVars
    /\ UNCHANGED << call, via, generators, typed, recon, proc, callers, replica >>

\* The end of Start: r.wg.Wait() and return nil.
StartReturn ==
    /\ startCall.pc = "range"
    /\ startCall.todo = {}
    /\ Wait
    /\ startCall' = [startCall EXCEPT !.pc = "returned", !.res = "nil"]
    /\ UNCHANGED << wg, tasks, stopCall, rootCtx, shutdownCtx >>
    /\ UNCHANGED storeVars
    /\ UNCHANGED << call, via, generators, typed, recon, proc, callers, replica >>

\* The owner of the root context cancels it.
CancelRoot ==
    /\ ~rootCtx
    /\ rootCtx' = TRUE
    /\ UNCHANGED << wg, tasks, startCall, stopCall, shutdownCtx >>
    /\ UNCHANGED storeVars
    /\ UNCHANGED << call, via, generators, typed, recon, proc, callers, replica >>

\* The generators Start's goroutines have not returned from.
InFlight == { name \in DOMAIN tasks : tasks[name].pc # "returned" }

\* Runtime.Stop is called with ctx (the shutdown context): it makes the done
\* channel and starts the goroutine that waits for r.wg.
Stop ==
    /\ stopCall.pc = "idle"
    /\ stopCall' = [stopCall EXCEPT !.pc = "select", !.inflight = InFlight]
    /\ UNCHANGED << wg, tasks, startCall, rootCtx, shutdownCtx >>
    /\ UNCHANGED storeVars
    /\ UNCHANGED << call, via, generators, typed, recon, proc, callers, replica >>

\* The goroutine of Stop: r.wg.Wait(); close(done).
StopWaiter ==
    /\ stopCall.pc # "idle"
    /\ ~stopCall.done
    /\ Wait
    /\ stopCall' = [stopCall EXCEPT !.done = TRUE]
    /\ UNCHANGED << wg, tasks, startCall, rootCtx, shutdownCtx >>
    /\ UNCHANGED storeVars
    /\ UNCHANGED << call, via, generators, typed, recon, proc, callers, replica >>

\* The deadline of the context passed to Stop fires.
Deadline ==
    /\ stopCall.pc # "idle"
    /\ ~shutdownCtx
    /\ shutdownCtx' = TRUE
    /\ UNCHANGED << wg, tasks, startCall, stopCall, rootCtx >>
    /\ UNCHANGED storeVars
    /\ UNCHANGED << call, via, generators, typed, recon, proc, callers, replica >>

\* Mutant of DoneClosed: the case <-done is ready before done is closed.
DoneAlwaysReady == TRUE

\* case <-done of Stop's select is ready once done is closed.
DoneClosed == stopCall.done

\* Stop's select: it returns nil through case <-done, ctx.Err() through case
\* <-ctx.Done(); when both are ready either one is taken.
StopSelect(res) ==
    /\ stopCall.pc = "select"
    /\ \/ res = "nil" /\ DoneClosed
       \/ res = "DeadlineExceeded" /\ shutdownCtx
    /\ stopCall' = [stopCall EXCEPT !.pc = "returned", !.res = res,
                                    !.inflight = @ \cap InFlight]
    /\ UNCHANGED << wg, tasks, startCall, rootCtx, shutdownCtx >>
    /\ UNCHANGED storeVars
    /\ UNCHANGED << call, via, generators, typed, recon, proc, callers, replica >>

\* ------------------------------------------------------------------ interface generator
\* The generator type that main registers.
InterfaceGeneratorType ==
    GeneratorType(InterfaceGeneratorName, {"NetworkInterface"}, FALSE)

\* g.store: the TypedStore[*api.NetworkInterface] over the store of the
\* GeneratorContext.
GeneratorStore == generators[InterfaceGeneratorName].Store

\* links, err := netlink.LinkList() without an error: reconcileInterfaces starts
\* with the links the system reports.
ReconcileStart(links) ==
    /\ Registered(InterfaceGeneratorName)
    /\ recon.pc = "idle"
    /\ recon' = [NoReconcile EXCEPT !.pc = "list", !.links = links]
    /\ UNCHANGED storeVars
    /\ UNCHANGED << call, via, generators, typed >>
    /\ NoLifecycleStep

\* stored, err := g.store.List(ctx) and the building of storedMap
ReconcileList ==
    /\ recon.pc = "list"
    /\ TypedList(GeneratorStore, "NetworkInterface")

\* _, err = g.store.Get(ctx, name) for the next link
ReconcileGet ==
    /\ recon.pc = "get"
    /\ TypedGet(GeneratorStore, "NetworkInterface", Head(recon.todo).Name)

\* g.store.Update(ctx, name, iface), up to the ownership check of the store
ReconcileUpdate ==
    /\ recon.pc = "update"
    /\ TypedUpdate(GeneratorStore, Head(recon.todo).Name, Probed(Head(recon.todo)))

\* g.store.Create(ctx, name, iface)
ReconcileCreate ==
    /\ recon.pc = "create"
    /\ TypedCreate(GeneratorStore, Head(recon.todo).Name, Probed(Head(recon.todo)))

\* g.store.Delete(ctx, name) for a name left in storedMap (a map is ranged over
\* in any order), up to the ownership check of the store
ReconcileDelete(name) ==
    /\ recon.pc = "delete"
    /\ name \in recon.storedMap
    /\ TypedDelete(GeneratorStore, "NetworkInterface", name)

\* return nil, once the last call on the store has returned
ReconcileReturn ==
    /\ recon.pc = "return"
    /\ frame = Nil
    /\ recon' = [recon EXCEPT !.pc = "idle", !.ended = TRUE]
    /\ UNCHANGED storeVars
    /\ UNCHANGED << call, via, generators, typed >>
    /\ NoLifecycleStep

\* ------------------------------------------------------------------ main
\* The lifecycle variables other than proc.
runtimeVars == << wg, tasks, startCall, stopCall, rootCtx, shutdownCtx >>

\* InterfaceGenerator.Run between two ticks: its select returns nil through case
\* <-ctx.Done() once the root context is cancelled, or takes a tick of its ticker
\* and calls reconcileInterfaces.
InterfaceRun(links) ==
    /\ InterfaceGeneratorName \in DOMAIN tasks
    /\ tasks[InterfaceGeneratorName].pc = "running"
    /\ recon.pc = "idle"
    /\ \/ rootCtx /\ TaskReturn(InterfaceGeneratorName, "nil")
       \/ ReconcileStart(links)

\* SIGINT or SIGTERM is sent to the process, once. With the channel of
\* signal.Notify registered the signal is put into sigCh (capacity 1); without
\* it the signal has its default disposition, which ends the process.
Signal ==
    /\ startCall.pc # "idle"
    /\ proc.signal = "none"
    /\ ~proc.killed
    /\ proc' = IF proc.notify THEN [proc EXCEPT !.signal = "queued"]
               ELSE [proc EXCEPT !.signal = "default", !.killed = TRUE]
    /\ UNCHANGED runtimeVars
    /\ UNCHANGED storeVars
    /\ UNCHANGED << call, via, generators, typed, recon, callers, replica >>

\* sigCh := make(chan os.Signal, 1); signal.Notify(sigCh, SIGINT, SIGTERM),
\* after rt.Start has returned.
SignalNotify ==
    /\ startCall.pc = "returned"
    /\ ~proc.notify
    /\ proc' = [proc EXCEPT !.notify = TRUE]
    /\ UNCHANGED runtimeVars
    /\ UNCHANGED storeVars
    /\ UNCHANGED << call, via, generators, typed, recon, callers, replica >>

\* <-sigCh
SignalReceive ==
    /\ proc.signal = "queued"
    /\ proc' = [proc EXCEPT !.signal = "received"]
    /\ UNCHANGED runtimeVars
    /\ UNCHANGED storeVars
    /\ UNCHANGED << call, via, generators, typed, recon, callers, replica >>

\* The goroutine of main and what it calls, statement by statement:
\* rt.RegisterGenerator(ifaceType), rt.Start(ctx) with its loop and its Wait,
\* signal.Notify, <-sigCh, rt.Stop(shutdownCtx) with its goroutine, the timer of
\* shutdownCtx and its select, and the deferred cancel() of the root context
\* when main returns.
main ==
    \/ ~Registered(InterfaceGeneratorName) /\ RegisterGenerator(InterfaceGeneratorType)
    \/ Registered(InterfaceGeneratorName) /\ Start
    \/ \E name \in DOMAIN generators : StartGo(name)
    \/ StartReturn
    \/ SignalNotify
    \/ SignalReceive
    \/ proc.signal = "received" /\ Stop
    \/ StopWaiter
    \/ Deadline
    \/ \E res \in {"nil", "DeadlineExceeded"} : StopSelect(res)
    \/ stopCall.pc = "returned" /\ CancelRoot

\* The process runs until a signal ends it.
Alive == ~proc.killed

\* ------------------------------------------------------------------ spec
\* A step of a caller that holds the memoryStore itself, or of a goroutine of the
\* store: no wrapper and no Runtime takes part in it. A wrapper call that has
\* fetched the stored record and not delegated yet stays as it is.
Direct ==
    /\ via' = IF via.pc = "fetched" THEN via ELSE NoVia
    /\ UNCHANGED generators
    /\ StoreStepOnly

\* The store under every input record, observed by one subscriber that keeps
\* its context alive.
Next ==
    \/ \E kind \in Kinds, name \in Names : Get(kind, name) /\ Direct
    \/ \E kind \in Kinds : List(kind) /\ Direct
    \/ \E resource \in Inputs : Create(resource) /\ Direct
    \/ \E resource \in Inputs : Update(resource) /\ Direct
    \/ \E kind \in Kinds, name \in Names : Delete(kind, name) /\ Direct
    \/ \E kind \in Kinds : Watch("ctx1", kind) /\ Direct
    \/ Receive("ctx1") /\ Direct
    \/ NotifyResume /\ Direct

Spec == Init /\ [][Next]_vars

\* The records written while the subscribers are the subject.
WatchInputs ==
    { Base, [Base EXCEPT !.spec = NetworkInterface("aa:bb:cc:dd:ee:ff")] } \cup DHCPClientInputs

\* The store written by concurrent writers and observed by two subscribers.
WatchNext ==
    \/ \E resource \in WatchInputs : Create(resource) /\ Direct
    \/ \E resource \in WatchInputs : Update(resource) /\ Direct
    \/ \E kind \in Kinds, name \in Names : Delete(kind, name) /\ Direct
    \/ \E ctx \in Contexts, kind \in Kinds : Watch(ctx, kind) /\ Direct
    \/ \E ch \in Contexts : Receive(ch) /\ Direct
    \/ NotifyResume /\ Direct

WatchSpec == Init /\ [][WatchNext]_vars

\* The store with a subscriber whose context is cancelled. The Go scheduler runs
\* every runnable goroutine: the clean-up goroutine gets mu if mu is free again
\* and again (a waiting Lock is not starved), and the writer blocked in notify
\* goes on once its channel has room. Nothing obliges a consumer to keep
\* receiving (TypedStore.Watch stops receiving when its context is done), or a
\* caller to cancel.
CancelNext ==
    \/ \E resource \in WatchInputs : Create(resource) /\ Direct
    \/ \E resource \in WatchInputs : Update(resource) /\ Direct
    \/ \E kind \in Kinds, name \in Names : Delete(kind, name) /\ Direct
    \/ \E kind \in Kinds : Watch("ctx1", kind) /\ Direct
    \/ Cancel("ctx1") /\ Direct
    \/ WatchCleanup("ctx1") /\ Direct
    \/ Receive("ctx1") /\ Direct
    \/ NotifyResume /\ Direct

CancelSpec ==
    /\ Init
    /\ [][CancelNext]_vars
    /\ SF_vars(WatchCleanup("ctx1") /\ Direct)
    /\ WF_vars(NotifyResume /\ Direct)

\* The store with callers that go on writing to every record they hold: the one
\* they passed in, the ones Get and List returned, the ones their events carry.
AliasInputs == { Base, [Base EXCEPT !.spec = NetworkInterface("aa:bb:cc:dd:ee:ff")] }

AliasNext ==
    \/ \E kind \in Kinds, name \in Names : Get(kind, name) /\ Direct
    \/ \E kind \in Kinds : List(kind) /\ Direct
    \/ \E resource \in AliasInputs : Create(resource) /\ Direct
    \/ \E resource \in AliasInputs : Update(resource) /\ Direct
    \/ \E kind \in Kinds, name \in Names : Delete(kind, name) /\ Direct
    \/ \E ctx \in Contexts : Watch(ctx, "NetworkInterface") /\ Direct
    \/ MutateReturned /\ Direct
    \/ MutateArgument /\ Direct
    \/ \E ch \in Contexts : MutateReceived(ch) /\ Direct
    \/ NotifyResume /\ Direct

AliasSpec == Init /\ [][AliasNext]_vars

\* Two OwnershipStores over the memoryStore, of owners "A" and "B", next to
\* callers that hold the memoryStore itself, observed by one subscriber.
Owners == {"A", "B"}
OwnerInputs ==
    { Base,
      [Base EXCEPT !.spec = NetworkInterface("aa:bb:cc:dd:ee:ff")],
      [Base EXCEPT !.metadata.owner = "A"],
      [Base EXCEPT !.metadata.owner = "B"] }

OwnerNext ==
    \/ \E owner \in Owners, resource \in OwnerInputs \cup {NoMetadataInput} :
          OwnershipCreate(NewOwnershipStore(memoryStore, owner), resource)
    \/ \E owner \in Owners, resource \in OwnerInputs \cup {NoMetadataInput} :
          OwnershipUpdate(NewOwnershipStore(memoryStore, owner), resource)
    \/ \E owner \in Owners, kind \in Kinds, name \in Names :
          OwnershipDelete(NewOwnershipStore(memoryStore, owner), kind, name)
    \/ OwnershipDelegate
    \/ \E owner \in Owners, kind \in Kinds, name \in Names :
          OwnershipGet(NewOwnershipStore(memoryStore, owner), kind, name)
    \/ \E owner \in Owners, kind \in Kinds :
          OwnershipList(NewOwnershipStore(memoryStore, owner), kind)
    \/ \E owner \in Owners :
          OwnershipWatch(NewOwnershipStore(memoryStore, owner), "ctx1", "NetworkInterface")
    \/ \E resource \in OwnerInputs : Create(resource) /\ Direct
    \/ \E resource \in OwnerInputs : Update(resource) /\ Direct
    \/ \E kind \in Kinds, name \in Names : Delete(kind, name) /\ Direct
    \/ Receive("ctx1") /\ Direct
    \/ NotifyResume /\ Direct

OwnerSpec == Init /\ [][OwnerNext]_vars

\* A TypeRestrictedStore over the memoryStore that allows NetworkInterface only,
\* next to callers that hold the memoryStore itself.
Restricted == NewTypeRestrictedStore({"NetworkInterface"})

TypeNext ==
    \/ \E kind \in Kinds, name \in Names : TypeRestrictedGet(Restricted, kind, name)
    \/ \E kind \in Kinds : TypeRestrictedList(Restricted, kind)
    \/ \E resource \in WatchInputs \cup {NoMetadataInput} :
          TypeRestrictedCreate(Restricted, resource)
    \/ \E resource \in WatchInputs \cup {NoMetadataInput} :
          TypeRestrictedUpdate(Restricted, resource)
    \/ \E kind \in Kinds, name \in Names : TypeRestrictedDelete(Restricted, kind, name)
    \/ \E kind \in Kinds : TypeRestrictedWatch(Restricted, "ctx1", kind)
    \/ \E resource \in WatchInputs : Create(resource) /\ Direct
    \/ \E resource \in WatchInputs : Update(resource) /\ Direct
    \/ \E kind \in Kinds, name \in Names : Delete(kind, name) /\ Direct
    \/ Receive("ctx1") /\ Direct
    \/ NotifyResume /\ Direct

TypeSpec == Init /\ [][TypeNext]_vars

\* The Runtime: generators are registered, every registered generator uses the
\* store it was given, and the holder of the Runtime uses its root store.
RuntimeInputs == { Base, [Base EXCEPT !.metadata.owner = "B"] } \cup DHCPClientInputs

RuntimeNext ==
    \/ \E genType \in GeneratorTypes : RegisterGenerator(genType)
    \/ \E name \in DOMAIN generators, resource \in RuntimeInputs :
          OwnershipCreate(generators[name].Store, resource)
    \/ \E name \in DOMAIN generators, resource \in RuntimeInputs :
          OwnershipUpdate(generators[name].Store, resource)
    \/ \E name \in DOMAIN generators, kind \in Kinds, name2 \in Names :
          OwnershipDelete(generators[name].Store, kind, name2)
    \/ OwnershipDelegate
    \/ \E name \in DOMAIN generators, kind \in Kinds, name2 \in Names :
          OwnershipGet(generators[name].Store, kind, name2)
    \/ \E name \in DOMAIN generators, kind \in Kinds :
          OwnershipList(generators[name].Store, kind)
    \/ \E name \in DOMAIN generators, kind \in Kinds :
          OwnershipWatch(generators[name].Store, "ctx1", kind)
    \/ \E resource \in RuntimeInputs : Create(resource) /\ Direct
    \/ \E kind \in Kinds, name \in Names : Delete(kind, name) /\ Direct
    \/ Receive("ctx1") /\ Direct
    \/ NotifyResume /\ Direct

RuntimeSpec == Init /\ [][RuntimeNext]_vars

\* The Runtime from registration to shut-down: generators are registered, Start
\* runs them, each Run returns when it chooses to (a Generator is any
\* implementation of the interface), a caller cancels the root context or calls
\* Stop, whose deadline may fire.
LifecycleNext ==
    \/ \E genType \in GeneratorTypes : startCall.pc = "idle" /\ RegisterGenerator(genType)
    \/ Start
    \/ \E name \in DOMAIN generators : StartGo(name)
    \/ \E name \in DOMAIN generators : TaskRun(name)
    \/ \E name \in DOMAIN generators, res \in RunResults : TaskReturn(name, res)
    \/ StartReturn
    \/ CancelRoot
    \/ Stop
    \/ StopWaiter
    \/ Deadline
    \/ \E res \in {"nil", "DeadlineExceeded"} : StopSelect(res)

\* The Go scheduler runs every runnable goroutine: Start's loop and its Wait,
\* and the goroutines it starts reach their call of Run. Nothing obliges a Run
\* to return.
LifecycleSpec ==
    /\ Init
    /\ [][LifecycleNext]_vars
    /\ WF_vars(\E name \in DOMAIN generators : StartGo(name))
    /\ WF_vars(\E name \in DOMAIN generators : TaskRun(name))
    /\ WF_vars(StartReturn)

\* The store under records that name no resource of a registered kind, next to
\* the base record, observed by one subscriber.
ValidationInputs == {Base, NoMetadataInput} \cup InvalidInputs
ValidationKinds == Kinds \cup {"", "DisallowedType"}
ValidationNames == Names \cup {"", "test"}

ValidationNext ==
    \/ \E kind \in ValidationKinds, name \in ValidationNames : Get(kind, name) /\ Direct
    \/ \E kind \in ValidationKinds : List(kind) /\ Direct
    \/ \E resource \in ValidationInputs : Create(resource) /\ Direct
    \/ \E resource \in ValidationInputs : Update(resource) /\ Direct
    \/ \E kind \in ValidationKinds, name \in ValidationNames : Delete(kind, name) /\ Direct
    \/ Watch("ctx1", "NetworkInterface") /\ Direct
    \/ Receive("ctx1") /\ Direct
    \/ NotifyResume /\ Direct

ValidationSpec == Init /\ [][ValidationNext]_vars

\* Mutant of ArgAfter: Update leaves the caller's record as it was sent.
ArgAsSent(c) == c.arg

\* The record the caller of Update holds once the call c has returned: an
\* effective Update has written the new generation into it
\* (resource.Metadata.Generation = existing.Metadata.Generation + 1).
ArgAfter(c) ==
    IF c.before # Nil /\ ~OwnerConflict(c.before, c.arg) /\ ~ProtoEqual(c.before, c.arg)
    THEN Stamp(c.before, c.arg)
    ELSE c.arg

\* The caller of an Update that has returned nil calls Update again with the
\* same record.
UpdateAgain ==
    /\ call.op = "Update"
    /\ call.res = "ok"
    /\ Update(ArgAfter(call))

\* The store under callers that repeat their Update, observed by one subscriber.
\* The records callers make have generation 0.
RepeatInputs ==
    { Base,
      [Base EXCEPT !.spec = NetworkInterface("aa:bb:cc:dd:ee:ff")],
      [Base EXCEPT !.metadata.labels = SomeLabels] }

RepeatNext ==
    \/ \E resource \in RepeatInputs : Create(resource) /\ Direct
    \/ \E resource \in RepeatInputs : Update(resource) /\ Direct
    \/ UpdateAgain /\ Direct
    \/ \E kind \in Kinds, name \in Names : Delete(kind, name) /\ Direct
    \/ \E kind \in Kinds : Watch("ctx1", kind) /\ Direct
    \/ Receive("ctx1") /\ Direct
    \/ NotifyResume /\ Direct

RepeatSpec == Init /\ [][RepeatNext]_vars

\* A TypedStore[*NetworkInterface] over the memoryStore (TypedStoreTestSuite),
\* next to callers of the memoryStore that write records with finalizers,
\* labels and an owner, observed by one subscriber.
TypedSpecs == { NetworkInterface("00:11:22:33:44:55"), NetworkInterface("aa:bb:cc:dd:ee:ff") }
TypedInputs ==
    { [Base EXCEPT !.metadata.finalizers = SomeFinalizers, !.metadata.labels = SomeLabels],
      [Base EXCEPT !.metadata.annotations = SomeLabels],
      [Base EXCEPT !.metadata.owner = "A"] }

TypedNext ==
    \/ \E name \in Names : TypedGet(memoryStore, "NetworkInterface", name)
    \/ TypedList(memoryStore, "NetworkInterface")
    \/ \E name \in Names, spec \in TypedSpecs : TypedCreate(memoryStore, name, spec)
    \/ \E name \in Names, spec \in TypedSpecs : TypedUpdate(memoryStore, name, spec)
    \/ \E name \in Names : TypedDelete(memoryStore, "NetworkInterface", name)
    \/ \E resource \in TypedInputs : Create(resource) /\ Direct
    \/ \E resource \in TypedInputs : Update(resource) /\ Direct
    \/ \E kind \in Kinds, name \in Names : Delete(kind, name) /\ Direct
    \/ Watch("ctx1", "NetworkInterface") /\ Direct
    \/ Receive("ctx1") /\ Direct
    \/ NotifyResume /\ Direct

TypedSpec == Init /\ [][TypedNext]_vars

\* A typed stream over the memoryStore whose context may be cancelled and whose
\* consumer may stop reading. The Go scheduler runs every runnable goroutine:
\* the forwarding goroutine takes case <-ctx.Done() once it is ready (a select
\* picks among its ready cases at random), the clean-up goroutine of the store
\* gets mu if mu is free again and again, and the writer blocked in notify goes
\* on once its channel has room.
TypedWatchNext ==
    \/ \E resource \in WatchInputs : Create(resource) /\ Direct
    \/ \E resource \in WatchInputs : Update(resource) /\ Direct
    \/ \E kind \in Kinds, name \in Names : Delete(kind, name) /\ Direct
    \/ \E kind \in Kinds : TypedWatch("ctx1", kind)
    \/ TypedTake("ctx1")
    \/ TypedSend("ctx1")
    \/ TypedReturn("ctx1")
    \/ TypedReceive("ctx1")
    \/ Cancel("ctx1") /\ Direct
    \/ WatchCleanup("ctx1") /\ Direct
    \/ NotifyResume /\ Direct

TypedWatchSpec ==
    /\ Init
    /\ [][TypedWatchNext]_vars
    /\ WF_vars(TypedReturn("ctx1"))
    /\ SF_vars(WatchCleanup("ctx1") /\ Direct)
    /\ WF_vars(NotifyResume /\ Direct)

\* The store written by concurrent writers and observed by two subscribers of
\* NetworkInterface, one of which may cancel its context.
DeliveryNext ==
    \/ \E resource \in WatchInputs : Create(resource) /\ Direct
    \/ \E resource \in WatchInputs : Update(resource) /\ Direct
    \/ \E kind \in Kinds, name \in Names : Delete(kind, name) /\ Direct
    \/ \E ctx \in Contexts : Watch(ctx, "NetworkInterface") /\ Direct
    \/ \E ch \in Contexts : Receive(ch) /\ Direct
    \/ Cancel("ctx1") /\ Direct
    \/ WatchCleanup("ctx1") /\ Direct
    \/ NotifyResume /\ Direct

DeliverySpec == Init /\ [][DeliveryNext]_vars

\* The interface generator as the only writer of the store, reconciling against
\* links that come and go, change their address and fail to report their
\* addresses; one subscriber observes the store and may stop reading.
LinkNames == {"eth0", "eth1"}
MacAddresses == {"00:11:22:33:44:55", "aa:bb:cc:dd:ee:ff"}
LinkLists ==
    UNION { { [i \in 1..Len(names) |-> Link(names[i], mac[i], addrErr[i])] :
                  mac \in [1..Len(names) -> MacAddresses],
                  addrErr \in [1..Len(names) -> BOOLEAN] } :
            names \in { << >>, << "eth0" >>, << "eth1" >>, << "eth0", "eth1" >> } }

ReconcileNext ==
    \/ RegisterGenerator(InterfaceGeneratorType)
    \/ \E links \in LinkLists : ReconcileStart(links)
    \/ ReconcileList
    \/ ReconcileGet
    \/ ReconcileUpdate
    \/ ReconcileCreate
    \/ \E name \in LinkNames : ReconcileDelete(name)
    \/ OwnershipDelegate
    \/ ReconcileReturn
    \/ Watch("ctx1", "NetworkInterface") /\ Direct
    \/ Receive("ctx1") /\ Direct
    \/ NotifyResume /\ Direct

ReconcileSpec == Init /\ [][ReconcileNext]_vars

\* The runtimed process: main, the goroutine of the interface generator with its
\* ticks, and a termination signal that arrives once the runtime is being
\* started. The Go scheduler runs every goroutine that can take a step.
MainNext ==
    \/ Alive /\ main
    \/ Alive /\ TaskRun(InterfaceGeneratorName)
    \/ \E links \in LinkLists : Alive /\ InterfaceRun(links)
    \/ Alive /\ ReconcileList
    \/ Alive /\ ReconcileGet
    \/ Alive /\ ReconcileUpdate
    \/ Alive /\ ReconcileCreate
    \/ \E name \in LinkNames : Alive /\ ReconcileDelete(name)
    \/ Alive /\ OwnershipDelegate
    \/ Alive /\ ReconcileReturn
    \/ Signal

MainSpec ==
    /\ Init
    /\ [][MainNext]_vars
    /\ WF_vars(Alive /\ main)
    /\ WF_vars(Alive /\ TaskRun(InterfaceGeneratorName))
    /\ WF_vars(\E links \in LinkLists : Alive /\ InterfaceRun(links))
    /\ WF_vars(Alive /\ ReconcileList)
    /\ WF_vars(Alive /\ ReconcileGet)
    /\ WF_vars(Alive /\ ReconcileUpdate)
    /\ WF_vars(Alive /\ ReconcileCreate)
    /\ WF_vars(\E name \in LinkNames : Alive /\ ReconcileDelete(name))
    /\ WF_vars(Alive /\ OwnershipDelegate)
    /\ WF_vars(Alive /\ ReconcileReturn)

\* Two goroutines that call the OwnershipStores of two owners over the
\* memoryStore at the same time. The store holds one interface that owner A
\* created; mutations are counted from there.
OwnedInit ==
    /\ data = [k \in {"NetworkInterface"} |->
                  [n \in {"eth0"} |-> SetOwner(Base, "A")]]
    /\ watchers = [k \in Kinds |-> << >>]
    /\ mu = "unlocked"
    /\ frame = Nil
    /\ chans = EmptyMap
    /\ ctxDone = [c \in Contexts |-> FALSE]
    /\ gor = EmptyMap
    /\ seen = EmptyMap
    /\ start = EmptyMap
    /\ commits = 0
    /\ call = NoCall
    /\ via = NoVia
    /\ generators = EmptyMap
    /\ wg = 0
    /\ tasks = EmptyMap
    /\ startCall = [pc |-> "idle", todo |-> {}, res |-> "none"]
    /\ stopCall = [pc |-> "idle", done |-> FALSE, inflight |-> {}, res |-> "none"]
    /\ rootCtx = FALSE
    /\ shutdownCtx = FALSE
    /\ typed = EmptyMap
    /\ recon = NoReconcile
    /\ proc = [notify |-> FALSE, signal |-> "none", killed |-> FALSE]
    /\ callers = [id \in CallerIds |-> IdleCaller]
    /\ replica = EmptyMap

CallersNext ==
    \/ \E id \in CallerIds, owner \in Owners, resource \in OwnerInputs :
          CallerCreate(id, NewOwnershipStore(memoryStore, owner), resource)
    \/ \E id \in CallerIds, owner \in Owners, resource \in OwnerInputs :
          CallerUpdate(id, NewOwnershipStore(memoryStore, owner), resource)
    \/ \E id \in CallerIds, owner \in Owners, name \in Names :
          CallerDelete(id, NewOwnershipStore(memoryStore, owner), "NetworkInterface", name)
    \/ \E id \in CallerIds : CallerDelegate(id)

CallersSpec == OwnedInit /\ [][CallersNext]_vars

\* The callers of OwnerSpec next to TypedStore views over the memoryStore and
\* over the OwnershipStores, which update with an envelope that names no owner.
OwnerKeptNext ==
    \/ OwnerNext
    \/ \E name \in Names, spec \in TypedSpecs : TypedUpdate(memoryStore, name, spec)
    \/ \E owner \in Owners, name \in Names, spec \in TypedSpecs :
          TypedUpdate(NewOwnershipStore(memoryStore, owner), name, spec)

OwnerKeptSpec == Init /\ [][OwnerKeptNext]_vars

\* A subscriber calls Watch(ctx, kind) while the store holds no resource of the
\* kind, and starts from an empty copy to which it applies every event it takes
\* out of its stream.
WatchFromEmpty(ctx, kind) ==
    /\ ListResult(kind) = {}
    /\ Watch(ctx, kind)
    /\ replica' = Put(replica, ctx, EmptyMap)
    /\ via' = NoVia
    /\ recon' = AfterCall(via', call')
    /\ UNCHANGED << generators, typed, wg, tasks, startCall, stopCall, rootCtx, shutdownCtx,
                    proc, callers >>

\* The store written by interleaved writers while two subscribers of
\* NetworkInterface, registered on the empty kind, replay their streams.
ReplayNext ==
    \/ \E resource \in WatchInputs : Create(resource) /\ Direct
    \/ \E resource \in WatchInputs : Update(resource) /\ Direct
    \/ \E kind \in Kinds, name \in Names : Delete(kind, name) /\ Direct
    \/ \E ctx \in Contexts : WatchFromEmpty(ctx, "NetworkInterface")
    \/ \E ch \in Contexts : Receive(ch) /\ Direct
    \/ NotifyResume /\ Direct

ReplaySpec == Init /\ [][ReplayNext]_vars

\* The store with a subscriber ctx1 of NetworkInterface that never takes an
\* event out of its stream, beside writers, readers and a second subscriber that
\* registers, drains and cancels. The Go scheduler runs every runnable goroutine:
\* a call that is not waiting for mu completes, and so does a send to a channel
\* that has room.
StallNext ==
    \/ \E resource \in WatchInputs : Create(resource) /\ Direct
    \/ \E resource \in WatchInputs : Update(resource) /\ Direct
    \/ \E kind \in Kinds, name \in Names : Delete(kind, name) /\ Direct
    \/ \E kind \in Kinds, name \in Names : Get(kind, name) /\ Direct
    \/ \E kind \in Kinds : List(kind) /\ Direct
    \/ Watch("ctx1", "NetworkInterface") /\ Direct
    \/ \E kind \in Kinds : Watch("ctx2", kind) /\ Direct
    \/ Receive("ctx2") /\ Direct
    \/ Cancel("ctx2") /\ Direct
    \/ WatchCleanup("ctx2") /\ Direct
    \/ NotifyResume /\ Direct

StallSpec ==
    /\ Init
    /\ [][StallNext]_vars
    /\ WF_vars(\E kind \in Kinds, name \in Names : Get(kind, name) /\ Direct)
    /\ WF_vars(\E kind \in Kinds : List(kind) /\ Direct)
    /\ WF_vars(\E kind \in Kinds : Watch("ctx2", kind) /\ Direct)
    /\ WF_vars(Receive("ctx2") /\ Direct)
    /\ WF_vars(WatchCleanup("ctx2") /\ Direct)
    /\ WF_vars(NotifyResume /\ Direct)

\* ------------------------------------------------------------------ properties
\* A call that got past its checks: it returned nil, or it has committed and is
\* still delivering its event.
Committed(c) == c.res \in {"ok", "pending"}

\* The entry a Create or Update call addresses, as stored now.
Stored(c) == Lookup(c.arg.metadata.kind, c.arg.metadata.name)

\* How often the event of commit n was put into channel ch.
Delivered(ch, n) ==
    Cardinality({ i \in 1..Len(chans[ch].buf) : chans[ch].buf[i].seq = n })
        + (IF seen[ch] = n THEN 1 ELSE 0)

\* No event of a commit after the n-th exists anywhere.
NoEventAfter(n) ==
    /\ frame = Nil
    /\ \A ch \in DOMAIN chans :
          /\ seen[ch] <= n
          /\ \A i \in 1..Len(chans[ch].buf) : chans[ch].buf[i].seq <= n

\* Whether channel ch is a subscriber of kind that notify's loop has served.
Served(ch, kind) ==
    \E i \in 1..Len(watchers[kind]) :
        watchers[kind][i] = ch /\ (frame = Nil \/ i < frame.i)

\* C1: an Update with a record equal to the stored one in every field returns
\* success, leaves the stored record and its generation as they were and puts no
\* event into any channel.
NoOpUpdateChangesNothing ==
    (/\ call.op = "Update"
     /\ call.before # Nil
     /\ call.arg = call.before)
    => /\ call.res = "ok"
       /\ Stored(call) = call.before
       /\ commits = call.c0
       /\ NoEventAfter(call.c0)

NoOpUpdateSeen ==
    /\ call.op = "Update"
    /\ call.before # Nil
    /\ call.arg = call.before
    /\ call.res = "ok"
    /\ "ctx1" \in DOMAIN gor
    /\ gor["ctx1"].kind = call.arg.metadata.kind
    /\ start["ctx1"] < commits

\* C2: an Update with a record that differs from the stored one and passes the
\* owner check stores the incoming record with generation = stored generation + 1,
\* whatever generation the caller sent, and puts exactly one Updated event into
\* the channel of each subscriber of the kind.
EffectiveUpdateStampsAndNotifies ==
    (/\ call.op = "Update"
     /\ call.before # Nil
     /\ call.arg # call.before
     /\ ~(call.before.metadata.owner # ""
          /\ call.before.metadata.owner # call.arg.metadata.owner))
    => /\ Committed(call)
       /\ Stored(call) = [call.arg EXCEPT !.metadata.generation =
                                              call.before.metadata.generation + 1]
       /\ commits = call.c0 + 1
       /\ call.res = "ok" <=> frame = Nil
       /\ \A ch \in DOMAIN chans :
             /\ Delivered(ch, commits) =
                    IF Served(ch, call.arg.metadata.kind) THEN 1 ELSE 0
             /\ \A i \in 1..Len(chans[ch].buf) :
                    chans[ch].buf[i].seq = commits => chans[ch].buf[i].type = "Updated"

EffectiveUpdateSeen ==
    /\ call.op = "Update"
    /\ call.res = "ok"
    /\ call.before # Nil
    /\ call.before.metadata.generation = 1
    /\ call.arg.metadata.generation = 0
    /\ call.arg.metadata.labels # call.before.metadata.labels
    /\ "ctx1" \in DOMAIN chans
    /\ Delivered("ctx1", commits) = 1

\* C3: after a successful Create(r), Get returns r with generation 0, also when
\* the caller sent another generation.
CreateStartsAtGenerationZero ==
    (call.op = "Create" /\ call.res = "ok")
    => GetResult(call.arg.metadata.kind, call.arg.metadata.name) =
           [res |-> "ok", val |-> [call.arg EXCEPT !.metadata.generation = 0]]

\* One step seen from the entry (kind, name), when the entry exists before and
\* after it.
GenerationStep(kind, name) ==
    LET old == Lookup(kind, name)
        new == Lookup(kind, name)'
    IN  (old # Nil /\ new # Nil)
        => /\ new.metadata.generation >= old.metadata.generation
           /\ new.metadata.generation # old.metadata.generation
              => /\ call'.op = "Update"
                 /\ Committed(call')
                 /\ call'.arg.metadata.kind = kind
                 /\ call'.arg.metadata.name = name
                 /\ call'.arg # old
                 /\ commits' = commits + 1

\* C4: while a resource exists, its stored generation never decreases, and it
\* changes only in the step of an effective Update of that resource.
GenerationMonotone ==
    [][\A kind \in Kinds, name \in Names : GenerationStep(kind, name)]_vars

GenerationAdvancedTwice ==
    /\ call.op = "Update"
    /\ Committed(call)
    /\ call.before.metadata.generation >= 1
    /\ call.arg.metadata.generation = 0
    /\ Stored(call).metadata.generation = 2

\* C5: Create of a (kind, name) that is present fails with already-exists, leaves
\* the stored record as it was and emits no event; Create of one that is absent
\* goes through; so of two Creates of one (kind, name) exactly one succeeds and no
\* (kind, name) is ever held twice.
CreateIsExclusive ==
    /\ (call.op = "Create" /\ call.arg.metadata # Nil)
       => IF call.before # Nil
          THEN /\ call.res = "ErrAlreadyExists"
               /\ Stored(call) = call.before
               /\ commits = call.c0
               /\ NoEventAfter(call.c0)
          ELSE /\ Committed(call)
               /\ Stored(call) # Nil
               /\ commits = call.c0 + 1
    /\ \A kind \in Kinds, name \in Names :
          Cardinality({ r \in ListResult(kind) : r.metadata.name = name }) <= 1

DuplicateCreateSeen ==
    /\ call.op = "Create"
    /\ call.res = "ErrAlreadyExists"
    /\ call.arg # call.before
    /\ "ctx1" \in DOMAIN gor
    /\ gor["ctx1"].kind = call.arg.metadata.kind

\* C6: Delete of an existing resource goes through exactly when its stored
\* finalizers are empty: with finalizers it fails, Get still returns the record
\* and no event is emitted; without, the resource is gone.
DeleteGatedByFinalizers ==
    (call.op = "Delete" /\ call.before # Nil)
    => /\ Committed(call) <=> Len(call.before.metadata.finalizers) = 0
       /\ Len(call.before.metadata.finalizers) > 0
          => /\ call.res = "ErrFinalizers"
             /\ GetResult(call.arg[1], call.arg[2]) = [res |-> "ok", val |-> call.before]
             /\ commits = call.c0
             /\ NoEventAfter(call.c0)
       /\ Len(call.before.metadata.finalizers) = 0
          => /\ Lookup(call.arg[1], call.arg[2]) = Nil
             /\ commits = call.c0 + 1

DeleteRefusedSeen ==
    /\ call.op = "Delete"
    /\ call.res = "ErrFinalizers"
    /\ call.before.metadata.generation >= 1
    /\ "ctx1" \in DOMAIN gor
    /\ gor["ctx1"].kind = call.arg[1]

\* C7: in every channel the events lie in commit order, behind the events its
\* consumer has taken out; and one commit's event is the same in every channel.
EventsInCommitOrder ==
    /\ \A ch \in DOMAIN chans :
          /\ \A i \in 1..Len(chans[ch].buf) : chans[ch].buf[i].seq > seen[ch]
          /\ \A i, j \in 1..Len(chans[ch].buf) :
                i < j => chans[ch].buf[i].seq < chans[ch].buf[j].seq
    /\ \A c1, c2 \in DOMAIN chans :
          \A i \in 1..Len(chans[c1].buf), j \in 1..Len(chans[c2].buf) :
              chans[c1].buf[i].seq = chans[c2].buf[j].seq
              => chans[c1].buf[i] = chans[c2].buf[j]

TwoSubscribersSameOrderSeen ==
    /\ DOMAIN chans = Contexts
    /\ gor["ctx1"].kind = gor["ctx2"].kind
    /\ Len(chans["ctx1"].buf) = 2
    /\ chans["ctx2"].buf = chans["ctx1"].buf
    /\ frame # Nil

\* C8: a channel holds only events of resources of the kind it was registered
\* for, and only events of mutations committed after its registration.
OnlyOwnKindAfterRegistration ==
    \A ch \in DOMAIN chans :
        /\ seen[ch] = 0 \/ seen[ch] > start[ch]
        /\ \A i \in 1..Len(chans[ch].buf) :
              /\ chans[ch].buf[i].resource.metadata.kind = gor[ch].kind
              /\ chans[ch].buf[i].seq > start[ch]

LateSubscriberSeen ==
    \E ch \in DOMAIN chans :
        /\ start[ch] = 1
        /\ Len(chans[ch].buf) = 1
        /\ chans[ch].buf[1].seq = 2
        /\ commits = 3
        /\ call.op = "Create"
        /\ call.res = "ok"
        /\ call.arg.metadata.kind # gor[ch].kind

\* The channel is closed and out of the subscriber table.
Closed(ch) ==
    /\ ch \in DOMAIN chans
    /\ chans[ch].closed
    /\ \A kind \in Kinds : \A i \in 1..Len(watchers[kind]) : watchers[kind][i] # ch

\* C9: once the context passed to Watch is cancelled, the channel is eventually
\* closed and out of the subscriber table.
CancelClosesStream ==
    (ctxDone["ctx1"] /\ "ctx1" \in DOMAIN chans) ~> Closed("ctx1")

\* The event the committed call c has to emit, read off the store.
EventOf(c) ==
    IF c.op = "Create" THEN [type |-> "Created", resource |-> Stored(c), seq |-> commits]
    ELSE IF c.op = "Update" THEN [type |-> "Updated", resource |-> Stored(c), seq |-> commits]
    ELSE [type |-> "Deleted", resource |-> c.before, seq |-> commits]

\* C10: the event of a mutation carries the record as the mutation stored it:
\* Created and Updated the record stored by the call, Deleted the record that
\* was stored before the removal.
EventCarriesSnapshot ==
    (/\ call.op \in {"Create", "Update", "Delete"}
     /\ Committed(call)
     /\ commits = call.c0 + 1)
    => /\ frame # Nil => frame.event = EventOf(call)
       /\ \A ch \in DOMAIN chans :
             \A i \in 1..Len(chans[ch].buf) :
                 chans[ch].buf[i].seq = commits => chans[ch].buf[i] = EventOf(call)

SnapshotsSeen ==
    /\ call.op = "Delete"
    /\ call.res = "ok"
    /\ "ctx1" \in DOMAIN chans
    /\ Len(chans["ctx1"].buf) = 2
    /\ chans["ctx1"].buf[1].type = "Updated"
    /\ chans["ctx1"].buf[1].resource.metadata.generation = 2
    /\ chans["ctx1"].buf[2].type = "Deleted"
    /\ chans["ctx1"].buf[2].resource = chans["ctx1"].buf[1].resource

\* C11: stored state is isolated from callers. A change a caller makes to a
\* record that Get or List returned, that an event delivered, or that it passed
\* to Create or Update before, leaves the stored record as it was: Get and List
\* return afterwards what they returned before, and no stored record ever carries
\* a caller's change.
StoredStateIsolated ==
    /\ call.op \in {"MutateReturned", "MutateArgument", "MutateReceived"}
       => /\ Lookup(call.arg[1], call.arg[2]) = call.before
          /\ call.before # Nil
             => /\ GetResult(call.arg[1], call.arg[2]) = [res |-> "ok", val |-> call.before]
                /\ ListResult(call.arg[1]) = {call.before}
    /\ \A kind \in Kinds, name \in Names :
          Lookup(kind, name) # Nil => Lookup(kind, name).metadata.annotations # Touched

MutationsSeen ==
    /\ call.op = "MutateReceived"
    /\ call.before # Nil
    /\ call.val = Mutated(call.before)
    /\ call.before.metadata.generation = 1

\* C12: when one mutation is delivered to two subscribers, a change one of them
\* makes to the record it received does not show in the record of the other: a
\* record waiting in a channel never carries a change made by a subscriber.
EventCopiesIndependent ==
    \A ch \in DOMAIN chans :
        \A i \in 1..Len(chans[ch].buf) :
            chans[ch].buf[i].resource.metadata.annotations # Touched

\* C13: on the memoryStore itself, an Update of a resource whose stored owner is
\* non-empty with a record of another owner fails with the ownership error,
\* leaves the stored record and its generation as they were and emits no event;
\* an Update with the stored owner (or of an unowned resource) is accepted.
CoreUpdateChecksOwner ==
    (call.op = "Update" /\ call.before # Nil)
    => IF call.before.metadata.owner # ""
          /\ call.before.metadata.owner # call.arg.metadata.owner
       THEN /\ call.res = "ErrOwner"
            /\ Stored(call) = call.before
            /\ commits = call.c0
            /\ NoEventAfter(call.c0)
       ELSE Committed(call)

OwnerConflictSeen ==
    /\ call.op = "Update"
    /\ call.res = "ErrOwner"
    /\ call.before.metadata.owner = "A"
    /\ call.arg.metadata.owner = "B"
    /\ call.before.metadata.generation = 1
    /\ "ctx1" \in DOMAIN gor
    /\ gor["ctx1"].kind = call.arg.metadata.kind

\* C14: once a stored resource has a non-empty owner, no Update and no Delete
\* issued on the memoryStore itself (by a caller that holds no Ownership wrapper
\* of that owner) goes through.
OwnedOnlyMutableByOwner ==
    (/\ call.op \in {"Update", "Delete"}
     /\ call.before # Nil
     /\ call.before.metadata.owner # "")
    => /\ ~Committed(call)
       /\ commits = call.c0

\* The entry a finished call on a wrapper addressed, as stored now.
StoredVia ==
    IF via.op \in {"create", "update"}
    THEN Lookup(via.arg.metadata.kind, via.arg.metadata.name)
    ELSE Lookup(via.arg[1], via.arg[2])

\* No event of a commit after the n-th exists, in a channel or in the hands of
\* a writer.
NoEventSince(n) ==
    /\ frame # Nil => frame.event.seq <= n
    /\ \A ch \in DOMAIN chans :
          \A i \in 1..Len(chans[ch].buf) : chans[ch].buf[i].seq <= n

\* The call on the wrapper returned an error of the wrapper and left the store
\* as it was.
RefusedVia ==
    /\ via.err # Nil
    /\ StoredVia = via.before
    /\ commits = via.c0
    /\ NoEventSince(via.c0)

\* C15: through an OwnershipStore of owner O, a Create with an empty owner stores
\* the record with owner O, a Create with another non-empty owner fails and
\* stores nothing, and after every Create or Update that went through, the
\* stored owner is O, whatever the caller sent and whatever other callers did in
\* between.
OwnershipStampsOwner ==
    (/\ via.op \in {"create", "update"}
     /\ via.pc = "done"
     /\ via.arg.metadata # Nil)
    => /\ (via.op = "create" /\ via.arg.metadata.owner \notin {"", via.wrapper.owner})
          => RefusedVia
       /\ (via.op = "create" /\ via.arg.metadata.owner = "" /\ via.before = Nil)
          => /\ via.err = Nil
             /\ Committed(call)
             /\ StoredVia = [via.arg EXCEPT !.metadata.owner = via.wrapper.owner]
       /\ (via.err = Nil /\ Committed(call))
          => StoredVia.metadata.owner = via.wrapper.owner

OwnerStampedSeen ==
    /\ via.op = "update"
    /\ via.pc = "done"
    /\ via.err = Nil
    /\ call.res = "ok"
    /\ via.arg.metadata.owner = "B"
    /\ via.wrapper.owner = "A"
    /\ via.before # call.before
    /\ StoredVia.metadata.generation = 2

\* C16: through an OwnershipStore of owner O, an Update of a resource whose
\* stored owner is non-empty and not O, and a Delete of a resource whose stored
\* owner is not O, fail with an OwnershipError of the resource's kind and name,
\* the stored owner and the action; the stored record stays and no event is
\* emitted.
OwnershipRefusesForeign ==
    (/\ via.op \in {"update", "delete"}
     /\ via.pc = "done"
     /\ via.before # Nil
     /\ via.before.metadata.owner # via.wrapper.owner
     /\ via.op = "update" => via.before.metadata.owner # "")
    => /\ via.err = [type |-> "OwnershipError",
                     ResourceKind |-> via.before.metadata.kind,
                     ResourceName |-> via.before.metadata.name,
                     Owner |-> via.before.metadata.owner,
                     Action |-> via.op]
       /\ RefusedVia

ForeignRefusedSeen ==
    /\ via.op = "delete"
    /\ via.wrapper.owner = "B"
    /\ via.err # Nil
    /\ via.before # Nil
    /\ via.before.metadata.owner = "A"
    /\ via.before.metadata.generation = 1
    /\ "ctx1" \in DOMAIN chans

\* C17: an Update through an OwnershipStore is refused for ownership only when
\* the stored owner is non-empty and not the wrapper's: of an unowned resource
\* the Update goes on to the store below with the wrapper's owner.
OwnershipAdoptsUnowned ==
    (/\ via.op = "update"
     /\ via.pc = "done"
     /\ via.before # Nil
     /\ via.before.metadata.owner = "")
    => via.err = Nil

\* The kind a call on a wrapper is about.
KindVia ==
    IF via.op \in {"create", "update"} THEN via.arg.metadata.kind
    ELSE IF via.op \in {"get", "delete"} THEN via.arg[1]
    ELSE via.arg

\* The memoryStore operation a call on a wrapper hands over to.
StoreOp(op) ==
    CASE op = "get" -> "Get" [] op = "list" -> "List" [] op = "create" -> "Create"
      [] op = "update" -> "Update" [] op = "delete" -> "Delete" [] op = "watch" -> "Watch"

\* C18: through a TypeRestrictedStore, every operation on a kind that is not
\* allowed fails with TypeRestrictedError{kind, action}, the action being the
\* operation called, and the store below is not called (no record changes, no
\* event, no subscriber); every operation on an allowed kind is the same call on
\* the store below, and its outcome is that call's outcome.
TypeRestrictionGatesKinds ==
    (/\ via.op # "none"
     /\ via.op \in {"create", "update"} => via.arg.metadata # Nil)
    => IF KindVia \notin via.wrapper.allowedKinds
       THEN /\ via.err = [type |-> "TypeRestrictedError", ResourceKind |-> KindVia,
                          Action |-> via.op]
            /\ call = NoCall
            /\ commits = via.c0
            /\ NoEventSince(via.c0)
            /\ via.op \in {"get", "create", "update", "delete"} => StoredVia = via.before
       ELSE /\ via.err = Nil
            /\ call.op = StoreOp(via.op)
            /\ call.arg = via.arg
            /\ call.c0 = via.c0
            /\ via.op = "get"
               => << call.res, call.val >> =
                      << GetResult(via.arg[1], via.arg[2]).res,
                         GetResult(via.arg[1], via.arg[2]).val >>
            /\ via.op = "list" => call.val = ListResult(via.arg)

KindRefusedSeen ==
    /\ via.op = "delete"
    /\ via.err # Nil
    /\ via.before # Nil
    /\ via.before.metadata.kind = "DHCPClient"
    /\ "ctx1" \in DOMAIN chans
    /\ Len(chans["ctx1"].buf) = 1

\* C19: through the store RegisterGenerator hands to a generator, every
\* operation on a kind outside the generator's managed kinds fails with
\* TypeRestrictedError{kind, action}, the action being the operation called: the
\* kind is checked before any ownership check, and no other error comes back.
KindCheckedBeforeOwnership ==
    (/\ via.op # "none"
     /\ via.pc = "done"
     /\ via.op \in {"create", "update"} => via.arg.metadata # Nil
     /\ KindVia \notin via.wrapper.store.allowedKinds)
    => via.err = [type |-> "TypeRestrictedError", ResourceKind |-> KindVia,
                  Action |-> via.op]

\* C20: RegisterGenerator fails when the name is registered already and when the
\* constructor returns an error, and leaves the registry as it was; otherwise it
\* puts the new generator under its name and changes no other registration.
RegistrationIsExclusive ==
    call.op = "RegisterGenerator"
    => IF call.arg.Name \in DOMAIN call.before
       THEN call.res = "ErrAlreadyRegistered" /\ generators = call.before
       ELSE IF call.arg.fails
       THEN call.res = "ErrNew" /\ generators = call.before
       ELSE /\ call.res = "ok"
            /\ DOMAIN generators = DOMAIN call.before \cup {call.arg.Name}
            /\ generators[call.arg.Name].Store.owner = call.arg.Name
            /\ generators[call.arg.Name].Store.store.allowedKinds = call.arg.ManagedKinds
            /\ \A name \in DOMAIN call.before : generators[name] = call.before[name]

DuplicateRegistrationSeen ==
    /\ call.op = "RegisterGenerator"
    /\ call.res = "ErrAlreadyRegistered"
    /\ generators[call.arg.Name].Store.store.allowedKinds # call.arg.ManagedKinds
    /\ DOMAIN generators = {"A", "B"}
    /\ commits > 0

\* A step in which the Run of generator name returns an error.
RunFails(name) ==
    /\ name \in DOMAIN tasks
    /\ tasks[name].pc = "running"
    /\ tasks'[name].pc = "returned"
    /\ tasks'[name].res = "error"

\* C21: Start calls the Run of every registered generator, each in a goroutine of
\* its own and with the context Start was given, and returns nil, and only once
\* every one of these calls has returned; a Run that returns an error cancels
\* nothing and leaves the other generators where they are.
StartJoinsEveryRun ==
    /\ [](/\ \A name \in DOMAIN tasks : name \in DOMAIN generators /\ tasks[name].ctx = "root"
          /\ startCall.pc = "returned"
             => /\ startCall.res = "nil"
                /\ DOMAIN tasks = DOMAIN generators
                /\ \A name \in DOMAIN tasks : tasks[name].pc = "returned")
    /\ [][\A name \in DOMAIN generators :
             RunFails(name)
             => /\ rootCtx' = rootCtx
                /\ startCall' = startCall
                /\ \A other \in DOMAIN tasks \ {name} : tasks'[other] = tasks[other]]_vars
    /\ (startCall.pc = "range")
          ~> (\A name \in DOMAIN generators :
                 name \in DOMAIN tasks /\ tasks[name].pc # "spawned")

StartJoinedSeen ==
    /\ startCall.pc = "returned"
    /\ DOMAIN tasks = {"A", "B"}
    /\ tasks["A"].res = "error"
    /\ tasks["B"].res = "nil"
    /\ ~rootCtx

\* C22: Stop returns nil only when every generator task that was in flight at its
\* call has returned; when it returns while one of them is still running, the
\* deadline of its context has fired and it returns the context's error; and no
\* step of Stop cancels the root context or touches a generator task, so the
\* tasks still running go on running.
StopJoinsOrTimesOut ==
    /\ [](stopCall.pc = "returned"
          => /\ stopCall.res = "nil" => stopCall.inflight = {}
             /\ stopCall.inflight # {} => stopCall.res = "DeadlineExceeded"
             /\ stopCall.res = "DeadlineExceeded" => shutdownCtx
             /\ stopCall.inflight \subseteq DOMAIN tasks)
    /\ [][stopCall' # stopCall
          => /\ tasks' = tasks
             /\ wg' = wg
             /\ rootCtx' = rootCtx]_vars

StopTimedOutSeen ==
    /\ stopCall.pc = "returned"
    /\ stopCall.res = "DeadlineExceeded"
    /\ stopCall.inflight = {"A"}
    /\ tasks["A"].pc = "running"
    /\ "B" \in DOMAIN tasks
    /\ tasks["B"].pc = "returned"
    /\ ~rootCtx

\* C23: Create and Update refuse a record without metadata, without a name,
\* without a kind, or with a spec of another kind than metadata.kind, so that
\* every stored record has a name, a kind and a spec of its kind.
StoredResourcesValid ==
    /\ (call.op \in {"Create", "Update"} /\ call.arg \in InvalidInputs \cup {NoMetadataInput})
       => ~Committed(call)
    /\ \A kind \in DOMAIN data : \A name \in DOMAIN data[kind] :
          /\ data[kind][name].metadata.name # ""
          /\ data[kind][name].metadata.kind # ""
          /\ KindFor(data[kind][name].spec) = data[kind][name].metadata.kind

\* The results with which a Store operation reports an error.
Errors ==
    {"ErrMetadataRequired", "ErrKindNotFound", "ErrNotFound", "ErrAlreadyExists",
     "ErrOwner", "ErrFinalizers"}

\* The call c is one of the cases that have to fail: Get, Update or Delete of a
\* missing entry, Create of a present one, Delete of a record with finalizers,
\* Update of an owned record with another owner.
HasToFail(c) ==
    \/ c.op \in {"Get", "Delete"} /\ c.before = Nil
    \/ c.op = "Update" /\ c.arg.metadata # Nil /\ c.before = Nil
    \/ c.op = "Create" /\ c.arg.metadata # Nil /\ c.before # Nil
    \/ c.op = "Delete" /\ c.before # Nil /\ Len(c.before.metadata.finalizers) > 0
    \/ c.op = "Update" /\ c.arg.metadata # Nil /\ c.before # Nil
       /\ c.before.metadata.owner \notin {"", c.arg.metadata.owner}

\* C24: a Store operation that returns an error changes nothing that Get and
\* List return, for any kind and name, and puts no event anywhere; Get, Update and
\* Delete of a missing entry or of a kind never written, Create of a present
\* entry, Delete of a record with finalizers and Update against the stored owner
\* return an error; List of a kind never written returns the empty collection
\* and no error.
ErrorsChangeNothing ==
    /\ [](/\ HasToFail(call) => call.res \in Errors
          /\ (call.op = "List" /\ call.arg \notin DOMAIN data)
             => call.res = "ok" /\ call.val = {})
    /\ [][call'.res \in Errors
          => /\ \A kind \in Kinds, name \in Names :
                   GetResult(kind, name)' = GetResult(kind, name)
             /\ \A kind \in Kinds : ListResult(kind)' = ListResult(kind)
             /\ chans' = chans
             /\ frame' = frame
             /\ commits' = commits
             /\ watchers' = watchers]_vars

ErrorOnMissingKindSeen ==
    /\ call.op = "Update"
    /\ call.res = "ErrNotFound"
    /\ call.arg.metadata.kind \notin DOMAIN data
    /\ Lookup("NetworkInterface", "eth0") # Nil
    /\ Lookup("NetworkInterface", "eth0").metadata.generation = 1
    /\ "ctx1" \in DOMAIN chans
    /\ Len(chans["ctx1"].buf) = 2

\* C25: when an Update with a record that differs from the stored one has gone
\* through and the caller calls Update with the same record again, the second
\* call returns nil and changes nothing: the generation is the stored one plus
\* one, as the first call left it, and no second event is put anywhere.
RepeatedUpdateIsNoOp ==
    [][(/\ call.op = "Update"
        /\ call.res = "ok"
        /\ call.before # Nil
        /\ commits = call.c0 + 1
        /\ call'.op = "Update"
        /\ call'.c0 = commits
        /\ call'.arg = ArgAfter(call))
       => /\ call'.res = "ok"
          /\ commits' = commits
          /\ data' = data
          /\ chans' = chans
          /\ frame' = frame
          /\ Stored(call)'.metadata.generation = call.before.metadata.generation + 1]_vars

RepeatedUpdateSeen ==
    /\ call.op = "Update"
    /\ call.res = "ok"
    /\ call.arg.metadata.generation = 2
    /\ call.arg = call.before
    /\ commits = call.c0
    /\ "ctx1" \in DOMAIN chans
    /\ Len(chans["ctx1"].buf) = 2
    /\ chans["ctx1"].buf[2].type = "Updated"
    /\ chans["ctx1"].buf[2].seq = commits

\* A TypedStore.Update of an existing resource with a spec that differs from the
\* stored one has been called and its call on the store has returned or is
\* delivering its event.
TypedUpdateOfNewSpec ==
    /\ via.op = "update"
    /\ via.pc = "done"
    /\ via.wrapper = memoryStore
    /\ via.arg = Envelope(via.arg.metadata.name, via.arg.spec)
    /\ via.before # Nil
    /\ via.before.spec # via.arg.spec

\* The Update that a TypedStore.Update came down to went through: generation
\* plus one, one Updated event for each subscriber served, the new spec stored
\* with the empty finalizers, labels and annotations of the envelope.
TypedUpdateEffective ==
    /\ via.err = Nil
    /\ call.op = "Update"
    /\ Committed(call)
    /\ commits = call.c0 + 1
    /\ Stored(call).metadata.generation = via.before.metadata.generation + 1
    /\ Stored(call).spec = via.arg.spec
    /\ Stored(call).metadata.finalizers = NoFinalizers
    /\ Stored(call).metadata.labels = NoLabels
    /\ Stored(call).metadata.annotations = NoLabels
    /\ ~HasFinalizers(Stored(call))
    /\ \A ch \in DOMAIN chans :
          /\ Delivered(ch, commits) = IF Served(ch, call.arg.metadata.kind) THEN 1 ELSE 0
          /\ \A i \in 1..Len(chans[ch].buf) :
                chans[ch].buf[i].seq = commits => chans[ch].buf[i].type = "Updated"

\* C26 as stated: a TypedStore.Update with a spec that differs from the stored
\* one is always an effective update.
TypedUpdateAlwaysEffective == TypedUpdateOfNewSpec => TypedUpdateEffective

\* C26, amended: a TypedStore.Update with a spec that differs from the stored one
\* is an effective update when the stored record has no owner (the envelope has
\* none); when the stored record has an owner, the Update fails with the
\* ownership error of the store and changes nothing.
TypedUpdateEffectiveIfUnowned ==
    TypedUpdateOfNewSpec
    => IF via.before.metadata.owner = ""
       THEN TypedUpdateEffective
       ELSE /\ call.op = "Update"
            /\ call.res = "ErrOwner"
            /\ Stored(call) = via.before
            /\ commits = via.c0
            /\ NoEventSince(via.c0)

TypedUpdateClearsFinalizersSeen ==
    /\ TypedUpdateOfNewSpec
    /\ call.res = "ok"
    /\ HasFinalizers(via.before)
    /\ via.before.metadata.labels = SomeLabels
    /\ "ctx1" \in DOMAIN chans
    /\ Len(chans["ctx1"].buf) = 2

\* Whether s is the beginning of t.
IsPrefix(s, t) == Len(s) <= Len(t) /\ SubSeq(t, 1, Len(s)) = s

\* The commit numbers of the records waiting in the typed channel of ctx.
Waiting(ctx) == [i \in 1..Len(typed[ctx].buf) |-> typed[ctx].buf[i].seq]

\* The typed stream of ctx has passed on the events taken from the store's
\* stream one by one and in their order: what was sent is the beginning of what
\* was taken, at most the event in the goroutine's hands is outstanding, and the
\* records waiting in the typed channel are the last ones sent, each carrying the
\* record of its event.
ForwardedInOrder(ctx) ==
    LET t == typed[ctx]
    IN  /\ IsPrefix(t.sent, t.taken)
        /\ Len(t.taken) - Len(t.sent) = IF t.pc = "send" \/ t.event # Nil THEN 1 ELSE 0
        /\ t.event # Nil => t.event.seq = t.taken[Len(t.taken)]
        /\ \A i, j \in 1..Len(t.taken) : i < j => t.taken[i] < t.taken[j]
        /\ Len(t.buf) <= Len(t.sent)
        /\ Waiting(ctx) = SubSeq(t.sent, Len(t.sent) - Len(t.buf) + 1, Len(t.sent))
        /\ Len(t.taken) > 0 => t.taken[Len(t.taken)] = seen[ctx]
        /\ \A i \in 1..Len(t.buf) : t.buf[i].resource.metadata.kind = gor[ctx].kind
        /\ t.closed <=> t.pc = "done"

\* C27: the typed stream passes on one typed record per event taken from the
\* store's stream, in the same order; once its context is cancelled or the
\* store's stream is closed it is eventually closed, whether or not its consumer
\* reads; and nothing is put into it once it is closed.
TypedStreamForwardsAndCloses ==
    /\ [](\A ctx \in DOMAIN typed : ForwardedInOrder(ctx))
    /\ [][\A ctx \in DOMAIN typed :
             typed[ctx].closed
             => /\ typed'[ctx].closed
                /\ typed'[ctx].sent = typed[ctx].sent
                /\ Len(typed'[ctx].buf) <= Len(typed[ctx].buf)]_vars
    /\ ("ctx1" \in DOMAIN typed /\ (ctxDone["ctx1"] \/ chans["ctx1"].closed))
          ~> ("ctx1" \in DOMAIN typed /\ typed["ctx1"].closed)

TypedStreamClosedWhileFullSeen ==
    /\ "ctx1" \in DOMAIN typed
    /\ typed["ctx1"].closed
    /\ Len(typed["ctx1"].buf) = ChanCap
    /\ typed["ctx1"].event # Nil
    /\ ~chans["ctx1"].closed

\* The positions of the subscriber table ws that notify's loop passes in a step:
\* from where it stood (its start, for a mutation committed in this step) to
\* where it stands next (its end, when it has returned).
Passed(ws) ==
    { p \in 1..Len(ws) :
        /\ p >= (IF frame # Nil THEN frame.i ELSE 1)
        /\ p < (IF frame' # Nil THEN frame'.i ELSE Len(ws) + 1) }

\* One step seen from the channels. In a step that commits a mutation or lets a
\* blocked notify go on, the event of that mutation is appended to the channel of
\* every subscriber of its kind that the loop passes, and to no other; the loop
\* stops only in front of a full channel; in every other step a channel keeps its
\* events, or loses its first one to its consumer.
DeliveryStep ==
    IF commits' = commits + 1 \/ (frame # Nil /\ frame' # frame)
    THEN LET event == IF frame # Nil THEN frame.event ELSE EventOf(call)'
             ws == watchers[event.resource.metadata.kind]
         IN  /\ event.seq = commits'
             /\ \A ch \in DOMAIN chans :
                   chans'[ch].buf =
                       IF \E p \in Passed(ws) : ws[p] = ch
                       THEN Append(chans[ch].buf, event)
                       ELSE chans[ch].buf
             /\ frame' # Nil
                => /\ frame'.event = event
                   /\ Len(chans[ws[frame'.i]].buf) >= ChanCap
             /\ (\A p \in 1..Len(ws) : Len(chans[ws[p]].buf) < ChanCap)
                => frame' = Nil /\ call'.res = "ok"
    ELSE \A ch \in DOMAIN chans :
             \/ chans'[ch].buf = chans[ch].buf
             \/ Len(chans[ch].buf) > 0 /\ chans'[ch].buf = Tail(chans[ch].buf)

\* C28: no event is dropped. The events put into a subscriber's channel are, in
\* their order, the events of the mutations of its kind committed while it was in
\* the subscriber table; a channel never holds more than its capacity; and a
\* mutation waits in notify only in front of a full channel.
NoEventDropped ==
    /\ [](\A ch \in DOMAIN chans :
             /\ Len(chans[ch].buf) <= ChanCap
             /\ \A i \in 1..Len(chans[ch].buf) :
                   /\ chans[ch].buf[i].seq > start[ch]
                   /\ chans[ch].buf[i].seq > seen[ch]
                   /\ i > 1 => chans[ch].buf[i].seq > chans[ch].buf[i - 1].seq)
    /\ [][DeliveryStep]_vars

BlockedOnOneSubscriberSeen ==
    /\ frame # Nil
    /\ frame.i = 2
    /\ watchers["NetworkInterface"] = << "ctx2", "ctx1" >>
    /\ Len(chans["ctx1"].buf) = ChanCap
    /\ Len(chans["ctx2"].buf) = 1
    /\ chans["ctx2"].buf[1].seq = commits
    /\ ctxDone["ctx1"]

\* The tick that ended last probed every link with success.
ProbeSucceeded == \A i \in 1..Len(recon.links) : ~recon.links[i].AddrErr

\* The stored NetworkInterface resources are those of the links of the last tick.
Converged ==
    /\ { r.metadata.name : r \in ListResult("NetworkInterface") }
           = { recon.links[i].Name : i \in 1..Len(recon.links) }
    /\ \A i \in 1..Len(recon.links) :
          LET r == Lookup("NetworkInterface", recon.links[i].Name)
          IN  /\ r.spec = Probed(recon.links[i])
              /\ r.metadata.owner = InterfaceGeneratorName

\* C30: with the generator as the only writer, at the end of a tick whose probe
\* succeeded for every link the stored NetworkInterface names are the probed
\* names, each stored spec is the probed spec and each owner is the generator's
\* name.
TickConverges ==
    (recon.pc = "idle" /\ recon.ended /\ ProbeSucceeded) => Converged

TickReplacedInterfaceSeen ==
    /\ recon.pc = "idle"
    /\ recon.ended
    /\ ProbeSucceeded
    /\ Len(recon.links) = 1
    /\ recon.links[1].Name = "eth1"
    /\ commits = 3
    /\ call.op = "Delete"
    /\ call.before.metadata.name = "eth0"
    /\ Converged

\* C29: after the runtime has been started and a termination signal arrives, the
\* root context is cancelled and Stop is called, every Run returns and Stop
\* returns nil.
SignalShutsDown ==
    (proc.signal # "none")
        ~> (/\ rootCtx
            /\ InFlight = {}
            /\ stopCall.pc = "returned"
            /\ stopCall.res = "nil")

\* main does not get past rt.Start: Start waits for the Run of the interface
\* generator, which returns only when the root context is cancelled, and main
\* cancels it only when it returns.
MainBlockedInStart ==
    /\ startCall.pc # "returned"
    /\ ~rootCtx
    /\ ~proc.notify
    /\ stopCall.pc = "idle"
    /\ proc.signal \in {"none", "default"}

\* The names of the links of the tick under way (or of the last one).
ProbedNames == { recon.links[i].Name : i \in 1..Len(recon.links) }

\* C31: a tick deletes a stored interface only if the interface is not among the
\* links of its probe, also when listing the addresses of a link fails.
TickDeletesOnlyAbsentLinks ==
    (/\ recon.pc \in {"delete", "return"}
     /\ ByGenerator(via)
     /\ via.op = "delete"
     /\ via.pc = "done"
     /\ via.err = Nil
     /\ call.op = "Delete"
     /\ Committed(call))
        => call.arg[2] \notin ProbedNames

\* The last call on the generator's store was the Update of a tick, and it went
\* through to the memoryStore.
TickUpdated ==
    /\ ByGenerator(via)
    /\ via.op = "update"
    /\ via.pc = "done"
    /\ via.err = Nil
    /\ call.op = "Update"
    /\ Committed(call)

\* C32: the Update of a tick whose probed spec equals the stored spec is a no-op:
\* the stored record and its generation stay and no event is emitted, whatever
\* the generation of the record.
TickUpdateOfSameSpecIsNoOp ==
    (TickUpdated /\ call.before.spec = call.arg.spec)
        => /\ commits = call.c0
           /\ Stored(call) = call.before
           /\ frame = Nil

\* C33: a Delete through the OwnershipStore of an owner never removes a resource
\* whose stored owner, when it is removed, is another one.
WrapperDeleteRemovesOnlyOwn ==
    \A id \in CallerIds :
        callers[id].removed \in {"none", callers[id].owner}

\* The entry (kind, name) holds a resource with an owner before and a resource
\* after the step.
OwnedThrough(kind, name) ==
    /\ Lookup(kind, name) # Nil
    /\ Lookup(kind, name).metadata.owner # ""
    /\ Lookup(kind, name)' # Nil

\* C34: the owner of a stored resource that has one does not change while the
\* resource stays stored, whichever Update is called on the memoryStore, on an
\* OwnershipStore or on a TypedStore.
OwnerImmutable ==
    [][\A kind \in Kinds, name \in Names :
          OwnedThrough(kind, name)
              => Lookup(kind, name)'.metadata.owner = Lookup(kind, name).metadata.owner]_vars

OwnedResourceUpdatedSeen ==
    /\ call.op = "Update"
    /\ call.res = "ok"
    /\ commits = call.c0 + 1
    /\ call.before.metadata.owner = "A"
    /\ call.arg.spec # call.before.spec
    /\ Stored(call).metadata.owner = "A"
    /\ Stored(call).metadata.generation = 2
    /\ via.op = "update"
    /\ via.wrapper = NewOwnershipStore(memoryStore, "A")

\* The channel ch is in the subscriber table.
InTable(ch) == \E kind \in Kinds : \E i \in 1..Len(watchers[kind]) : watchers[kind][i] = ch

\* One step seen from the stream ch: it is closed only with its context
\* cancelled, by the step that takes it out of the table, and it receives an
\* event only while it is open and in the table.
StreamStep(ch) ==
    /\ (chans'[ch].closed /\ ~chans[ch].closed)
          => ctxDone[ch] /\ InTable(ch) /\ ~InTable(ch)'
    /\ (gor'[ch].pc = "done" /\ gor[ch].pc # "done" /\ InTable(ch))
          => ~chans[ch].closed
    /\ Len(chans'[ch].buf) > Len(chans[ch].buf)
          => ~chans[ch].closed /\ InTable(ch)

\* C35: a stream is closed at most once and only after its context was
\* cancelled, and no mutation sends an event to a stream that is closed or taken
\* out of the subscriber table.
StreamClosedOnceNeverSentAfter ==
    /\ [](\A ch \in DOMAIN chans :
             /\ chans[ch].closed => ctxDone[ch] /\ ~InTable(ch) /\ gor[ch].pc = "done"
             /\ gor[ch].pc = "done" => chans[ch].closed)
    /\ [][\A ch \in DOMAIN chans : StreamStep(ch)]_vars

MutationAfterCloseSeen ==
    /\ "ctx1" \in DOMAIN chans
    /\ "ctx2" \in DOMAIN chans
    /\ chans["ctx1"].closed
    /\ start["ctx1"] = 0
    /\ start["ctx2"] = 0
    /\ commits = 3
    /\ frame = Nil
    /\ Len(chans["ctx1"].buf) = 1
    /\ Len(chans["ctx2"].buf) = 2
    /\ seen["ctx2"] = 1
    /\ chans["ctx2"].buf[2].seq = 3

\* The step emits an Updated event for (kind, name): an effective Update of it
\* commits.
EmitsUpdated(kind, name) ==
    /\ commits' = commits + 1
    /\ call'.op = "Update"
    /\ Committed(call')
    /\ call'.arg.metadata.kind = kind
    /\ call'.arg.metadata.name = name

\* The event emitted by the step is an Updated event of generation n, in every
\* place the step puts it: the buffers it sends to and the blocked writer's hand.
CarriesGeneration(kind, n) ==
    /\ \A ch \in DOMAIN chans :
           Len(chans'[ch].buf) > Len(chans[ch].buf)
           => LET event == chans'[ch].buf[Len(chans'[ch].buf)]
              IN  /\ event.type = "Updated"
                  /\ event.resource.metadata.kind = kind
                  /\ event.resource.metadata.generation = n
    /\ frame' # Nil
       => /\ frame'.event.type = "Updated"
          /\ frame'.event.resource.metadata.generation = n

\* One step seen from the entry (kind, name): its generation grows by one with
\* each Updated event emitted for it and not otherwise.
CountedStep(kind, name) ==
    LET old == Lookup(kind, name)
        new == Lookup(kind, name)'
    IN  IF EmitsUpdated(kind, name)
        THEN /\ old # Nil
             /\ new # Nil
             /\ new.metadata.generation = old.metadata.generation + 1
             /\ CarriesGeneration(kind, new.metadata.generation)
        ELSE (old # Nil /\ new # Nil)
             => new.metadata.generation = old.metadata.generation

\* Two events that follow each other in a stream, the second an Updated event of
\* the resource of the first, which is not its removal.
Successive(first, second) ==
    /\ second.type = "Updated"
    /\ first.type # "Deleted"
    /\ first.resource.metadata.name = second.resource.metadata.name
    /\ second.seq = first.seq + 1

\* C36: the generation of a stored resource is the generation it was created
\* with plus the number of Updated events emitted for it since: every emitted
\* Updated event goes with a step of one generation, no other step changes the
\* generation, and successive Updated events of a resource carry consecutive
\* generations, whichever writers made the updates.
GenerationCountsUpdatedEvents ==
    /\ [][\A kind \in Kinds, name \in Names : CountedStep(kind, name)]_vars
    /\ [](\A ch \in DOMAIN chans : \A i \in 1..(Len(chans[ch].buf) - 1) :
             Successive(chans[ch].buf[i], chans[ch].buf[i + 1])
             => chans[ch].buf[i + 1].resource.metadata.generation =
                    chans[ch].buf[i].resource.metadata.generation + 1)

TwoUpdatedEventsBuffered ==
    /\ "ctx1" \in DOMAIN chans
    /\ Len(chans["ctx1"].buf) = 2
    /\ chans["ctx1"].buf[1].type = "Updated"
    /\ chans["ctx1"].buf[2].type = "Updated"
    /\ chans["ctx1"].buf[1].resource.metadata.generation = 1
    /\ chans["ctx1"].buf[2].resource.metadata.generation = 2
    /\ Lookup("NetworkInterface", "eth0") # Nil
    /\ Lookup("NetworkInterface", "eth0").metadata.generation = 2
    /\ commits = 3

\* The subscriber ch has taken every event of a committed mutation of its kind
\* out of its stream: nothing is buffered for it and no writer still has an
\* event to send to it.
ConsumedAll(ch) ==
    /\ chans[ch].buf = << >>
    /\ frame # Nil
       => \/ frame.event.resource.metadata.kind # gor[ch].kind
          \/ \E i \in 1..(frame.i - 1) : WatchersOf(gor[ch].kind)[i] = ch

\* C37: a subscriber that registered for a kind while the store held no resource
\* of it, and applies its events in order, holds the names and records of List
\* of the kind whenever it has consumed all events of committed mutations.
ReplayIsFaithful ==
    \A ch \in DOMAIN replica :
        ConsumedAll(ch)
        => /\ DOMAIN replica[ch] = { r.metadata.name : r \in ListResult(gor[ch].kind) }
           /\ { replica[ch][n] : n \in DOMAIN replica[ch] } = ListResult(gor[ch].kind)

ReplayedUpdateSeen ==
    /\ "ctx1" \in DOMAIN replica
    /\ "ctx2" \in DOMAIN replica
    /\ ConsumedAll("ctx1")
    /\ ~ConsumedAll("ctx2")
    /\ seen["ctx1"] = 3
    /\ start["ctx1"] = 0
    /\ "eth0" \in DOMAIN replica["ctx1"]
    /\ replica["ctx1"]["eth0"].metadata.generation = 1
    /\ replica["ctx2"] # replica["ctx1"]

\* Stop has returned nil while a Run launched by Start is in progress or Start
\* has a generator left to launch.
StoppedWithRunsLeft ==
    /\ stopCall.pc = "returned"
    /\ stopCall.res = "nil"
    /\ \/ InFlight # {}
       \/ startCall.pc = "range" /\ startCall.todo # {}

\* C38: once Start has been called and Stop has not returned yet, Stop never
\* returns nil with a Run launched by Start in progress or still to be launched.
StopSuccessEndsEveryRun ==
    []((startCall.pc # "idle" /\ stopCall.pc # "returned") => []~StoppedWithRunsLeft)

\* A writer to NetworkInterface is blocked in notify on the full buffer of ch.
StalledOn(ch) ==
    /\ frame # Nil
    /\ frame.event.resource.metadata.kind = "NetworkInterface"
    /\ WatchersOf("NetworkInterface")[frame.i] = ch
    /\ Full(ch)

\* C39: while a writer to NetworkInterface is blocked on the full buffer of the
\* subscriber ctx1, which does not drain, a Get and a List complete, a new Watch
\* registration completes, and a cancelled subscriber is removed.
StallsOnlyWritersOfKind ==
    /\ StalledOn("ctx1") ~> (StalledOn("ctx1") /\ call.op = "Get")
    /\ StalledOn("ctx1") ~> (StalledOn("ctx1") /\ call.op = "List")
    /\ (StalledOn("ctx1") /\ "ctx2" \notin DOMAIN chans)
          ~> (StalledOn("ctx1") /\ "ctx2" \in DOMAIN chans)
    /\ (StalledOn("ctx1") /\ "ctx2" \in DOMAIN gor /\ ctxDone["ctx2"])
          ~> (StalledOn("ctx1") /\ "ctx2" \in DOMAIN gor /\ gor["ctx2"].pc = "done")

====
